---- MODULE Spec2Model ----
(***************************************************************************)
(* A model of the Carcassonne rules engine: the board (tile table,         *)
(* connected-region table, edge index), placement validation and commit,   *)
(* and the scorer.                                                         *)
(***************************************************************************)
EXTENDS Integers, Sequences, FiniteSets, TLC

(***************************************************************************)
(* Option<T>: None is the empty sequence, Some(v) the one-element sequence *)
(***************************************************************************)
None == << >>

Some(v) == << v >>

IsSome(o) == o # None

Unwrap(o) == o[1]

Range(s) == { s[i] : i \in DOMAIN s }

(***************************************************************************)
(* tile.rs: the 12-direction compass                                       *)
(***************************************************************************)
PRIMARY_CARDINAL_DIRECTIONS == << "N", "E", "S", "W" >>

PERIMETER_REGION_DIRECTIONS ==
  << "NNW", "N", "NNE", "ENE", "E", "ESE", "SSE", "S", "SSW", "WSW", "W", "WNW" >>

CardinalDirection == Range(PERIMETER_REGION_DIRECTIONS)

\* .iter().position(|d| d == self), zero-based
position(d) ==
  CASE d = "NNW" -> 0 [] d = "N" -> 1 [] d = "NNE" -> 2 [] d = "ENE" -> 3
    [] d = "E" -> 4 [] d = "ESE" -> 5 [] d = "SSE" -> 6 [] d = "S" -> 7
    [] d = "SSW" -> 8 [] d = "WSW" -> 9 [] d = "W" -> 10 [] d = "WNW" -> 11

\* CardinalDirection::rotate: cycle().skip(n * 3 + position).next()
rotate(d, n) == PERIMETER_REGION_DIRECTIONS[((n * 3 + position(d)) % 12) + 1]

\* CardinalDirection::adjacent: the (left, right) perimeter neighbours
adjacent(d) ==
  CASE d = "N"   -> << "NNW", "NNE" >>
    [] d = "NNE" -> << "N", "ENE" >>
    [] d = "ENE" -> << "NNE", "E" >>
    [] d = "E"   -> << "ENE", "ESE" >>
    [] d = "ESE" -> << "E", "SSE" >>
    [] d = "SSE" -> << "ESE", "S" >>
    [] d = "S"   -> << "SSE", "SSW" >>
    [] d = "SSW" -> << "S", "WSW" >>
    [] d = "WSW" -> << "SSW", "W" >>
    [] d = "W"   -> << "WSW", "WNW" >>
    [] d = "WNW" -> << "W", "NNW" >>
    [] d = "NNW" -> << "WNW", "N" >>

compass_opposite(d) ==
  CASE d = "N"   -> "S"
    [] d = "NNE" -> "SSW"
    [] d = "ENE" -> "WSW"
    [] d = "E"   -> "W"
    [] d = "ESE" -> "WNW"
    [] d = "SSE" -> "NNW"
    [] d = "S"   -> "N"
    [] d = "SSW" -> "NNE"
    [] d = "WSW" -> "ENE"
    [] d = "W"   -> "E"
    [] d = "WNW" -> "ESE"
    [] d = "NNW" -> "SSE"

tile_opposite(d) ==
  CASE d = "N"   -> "S"
    [] d = "NNE" -> "SSE"
    [] d = "ENE" -> "WNW"
    [] d = "E"   -> "W"
    [] d = "ESE" -> "WSW"
    [] d = "SSE" -> "NNE"
    [] d = "S"   -> "N"
    [] d = "SSW" -> "NNW"
    [] d = "WSW" -> "ESE"
    [] d = "W"   -> "E"
    [] d = "WNW" -> "ENE"
    [] d = "NNW" -> "SSW"

primary_direction(d) ==
  CASE d \in { "N", "NNE", "NNW" }   -> "N"
    [] d \in { "ENE", "E", "ESE" }   -> "E"
    [] d \in { "SSE", "S", "SSW" }   -> "S"
    [] d \in { "WSW", "W", "WNW" }   -> "W"

(***************************************************************************)
(* tile.rs: board coordinates, <<x, y>>; north is y-decreasing             *)
(***************************************************************************)
adjacent_in_direction(c, d) ==
  CASE primary_direction(d) = "N" -> << c[1], c[2] - 1 >>
    [] primary_direction(d) = "E" -> << c[1] + 1, c[2] >>
    [] primary_direction(d) = "S" -> << c[1], c[2] + 1 >>
    [] primary_direction(d) = "W" -> << c[1] - 1, c[2] >>

\* BTreeMap keyed by the primary directions, iterated in the order N, E, S, W
adjacent_coordinates(c) ==
  [ i \in 1..4 |-> << PRIMARY_CARDINAL_DIRECTIONS[i],
                      adjacent_in_direction(c, PRIMARY_CARDINAL_DIRECTIONS[i]) >> ]

\* the eight cells around c, in the order the nested ranges produce them
surrounding_coordinates(c) ==
  << << c[1] - 1, c[2] - 1 >>, << c[1] - 1, c[2] >>, << c[1] - 1, c[2] + 1 >>,
     << c[1], c[2] - 1 >>, << c[1], c[2] + 1 >>,
     << c[1] + 1, c[2] - 1 >>, << c[1] + 1, c[2] >>, << c[1] + 1, c[2] + 1 >> >>

\* "panic" stands for the panic!("Coordinates are not adjacent!") arm
direction_to_adjacent_coordinate(c, other) ==
  LET dx == c[1] - other[1]
      dy == c[2] - other[2]
  IN  CASE dx = 0 /\ dy = 1  -> "N"
        [] dx = -1 /\ dy = 0 -> "E"
        [] dx = 0 /\ dy = -1 -> "S"
        [] dx = 1 /\ dy = 0  -> "W"
        [] OTHER             -> "panic"

(***************************************************************************)
(* tile_definitions.rs: the tile catalog                                   *)
(***************************************************************************)
CROSS_INTERSECTION ==
  [name |-> "CROSS_INTERSECTION", count |-> 1, regions |-> <<
       [region_type |-> "Road", edges |-> <<"N">>, pennant |-> FALSE],
       [region_type |-> "Road", edges |-> <<"S">>, pennant |-> FALSE],
       [region_type |-> "Road", edges |-> <<"E">>, pennant |-> FALSE],
       [region_type |-> "Road", edges |-> <<"W">>, pennant |-> FALSE],
       [region_type |-> "Field", edges |-> <<"NNE", "ENE">>, pennant |-> FALSE],
       [region_type |-> "Field", edges |-> <<"WNW", "NNW">>, pennant |-> FALSE],
       [region_type |-> "Field", edges |-> <<"ESE", "WSW">>, pennant |-> FALSE],
       [region_type |-> "Field", edges |-> <<"SSW", "SSE">>, pennant |-> FALSE] >>]

THREE_WAY_JUNCTION_WITH_CITY ==
  [name |-> "THREE_WAY_JUNCTION_WITH_CITY", count |-> 3, regions |-> <<
       [region_type |-> "Road", edges |-> <<"N">>, pennant |-> FALSE],
       [region_type |-> "Road", edges |-> <<"E">>, pennant |-> FALSE],
       [region_type |-> "Road", edges |-> <<"W">>, pennant |-> FALSE],
       [region_type |-> "Field", edges |-> <<"NNE", "ENE">>, pennant |-> FALSE],
       [region_type |-> "Field", edges |-> <<"ESE", "WSW">>, pennant |-> FALSE],
       [region_type |-> "Field", edges |-> <<"WNW", "NNW">>, pennant |-> FALSE],
       [region_type |-> "City", edges |-> <<"SSE", "S", "SSW">>, pennant |-> FALSE] >>]

STRAIGHT_CITY_WITH_SIDE_FIELDS ==
  [name |-> "STRAIGHT_CITY_WITH_SIDE_FIELDS", count |-> 1, regions |-> <<
       [region_type |-> "City", edges |-> <<"NNW", "N", "NNE", "SSE", "S", "SSW">>, pennant |-> FALSE],
       [region_type |-> "Field", edges |-> <<"WSW", "W", "WNW">>, pennant |-> FALSE],
       [region_type |-> "Field", edges |-> <<"ENE", "E", "ESE">>, pennant |-> FALSE] >>]

STRAIGHT_CITY_WITH_SIDE_FIELDS_AND_PENNANT ==
  [name |-> "STRAIGHT_CITY_WITH_SIDE_FIELDS_AND_PENNANT", count |-> 2, regions |-> <<
       [region_type |-> "City", edges |-> <<"NNW", "N", "NNE", "SSE", "S", "SSW">>, pennant |-> TRUE],
       [region_type |-> "Field", edges |-> <<"WSW", "W", "WNW">>, pennant |-> FALSE],
       [region_type |-> "Field", edges |-> <<"ENE", "E", "ESE">>, pennant |-> FALSE] >>]

STRAIGHT_ROAD_WITH_SIDE_CITY ==
  [name |-> "STRAIGHT_ROAD_WITH_SIDE_CITY", count |-> 4, regions |-> <<
       [region_type |-> "City", edges |-> <<"NNW", "N", "NNE">>, pennant |-> FALSE],
       [region_type |-> "Field", edges |-> <<"ENE", "WNW">>, pennant |-> FALSE],
       [region_type |-> "Field", edges |-> <<"ESE", "SSE", "S", "SSW", "WSW">>, pennant |-> FALSE],
       [region_type |-> "Road", edges |-> <<"E", "W">>, pennant |-> FALSE] >>]

FIELD_WITH_TWO_CORNER_CITIES ==
  [name |-> "FIELD_WITH_TWO_CORNER_CITIES", count |-> 2, regions |-> <<
       [region_type |-> "City", edges |-> <<"ENE", "E", "ESE">>, pennant |-> FALSE],
       [region_type |-> "City", edges |-> <<"SSE", "S", "SSW">>, pennant |-> FALSE],
       [region_type |-> "Field", edges |-> <<"WSW", "W", "WNW", "NNW", "N", "NNE">>, pennant |-> FALSE] >>]

CORNER_ROAD_WITH_PENNANTED_CORNER_CITY ==
  [name |-> "CORNER_ROAD_WITH_PENNANTED_CORNER_CITY", count |-> 2, regions |-> <<
       [region_type |-> "City", edges |-> <<"NNW", "N", "NNE", "ENE", "E", "ESE">>, pennant |-> TRUE],
       [region_type |-> "Field", edges |-> <<"SSE", "WNW">>, pennant |-> FALSE],
       [region_type |-> "Field", edges |-> <<"SSW", "WSW">>, pennant |-> FALSE],
       [region_type |-> "Road", edges |-> <<"S", "W">>, pennant |-> FALSE] >>]

THREE_WAY_JUNCTION ==
  [name |-> "THREE_WAY_JUNCTION", count |-> 4, regions |-> <<
       [region_type |-> "Road", edges |-> <<"N">>, pennant |-> FALSE],
       [region_type |-> "Road", edges |-> <<"E">>, pennant |-> FALSE],
       [region_type |-> "Road", edges |-> <<"W">>, pennant |-> FALSE],
       [region_type |-> "Field", edges |-> <<"NNE", "ENE">>, pennant |-> FALSE],
       [region_type |-> "Field", edges |-> <<"ESE", "SSE", "S", "SSW", "WSW">>, pennant |-> FALSE],
       [region_type |-> "Field", edges |-> <<"WNW", "NNW">>, pennant |-> FALSE] >>]

RIVER_TERMINATOR ==
  [name |-> "RIVER_TERMINATOR", count |-> 2, regions |-> <<
       [region_type |-> "Field", edges |-> <<"ESE", "SSE", "S", "SSW", "WSW", "W", "WNW", "NNW", "N", "NNE", "ENE">>, pennant |-> FALSE],
       [region_type |-> "Water", edges |-> <<"E">>, pennant |-> FALSE] >>]

CORNER_ROAD ==
  [name |-> "CORNER_ROAD", count |-> 9, regions |-> <<
       [region_type |-> "Field", edges |-> <<"ESE", "SSE">>, pennant |-> FALSE],
       [region_type |-> "Field", edges |-> <<"SSW", "WSW", "W", "WNW", "NNW", "N", "NNE", "ENE">>, pennant |-> FALSE],
       [region_type |-> "Road", edges |-> <<"E", "S">>, pennant |-> FALSE] >>]

RIVER_CORNER_WITH_ROAD_CORNER ==
  [name |-> "RIVER_CORNER_WITH_ROAD_CORNER", count |-> 1, regions |-> <<
       [region_type |-> "Road", edges |-> <<"N", "W">>, pennant |-> FALSE],
       [region_type |-> "Field", edges |-> <<"NNE", "ENE", "SSW", "WSW">>, pennant |-> FALSE],
       [region_type |-> "Water", edges |-> <<"E", "S">>, pennant |-> FALSE],
       [region_type |-> "Field", edges |-> <<"ESE", "SSE">>, pennant |-> FALSE],
       [region_type |-> "Field", edges |-> <<"WNW", "NNW">>, pennant |-> FALSE] >>]

CORNER_CITY ==
  [name |-> "CORNER_CITY", count |-> 3, regions |-> <<
       [region_type |-> "Field", edges |-> <<"NNW", "N", "NNE", "ENE", "E", "ESE">>, pennant |-> FALSE],
       [region_type |-> "City", edges |-> <<"SSE", "S", "SSW", "WSW", "W", "WNW">>, pennant |-> FALSE] >>]

SIDE_CITY_WITH_SIDE_ROAD_AND_PENNANT ==
  [name |-> "SIDE_CITY_WITH_SIDE_ROAD_AND_PENNANT", count |-> 2, regions |-> <<
       [region_type |-> "City", edges |-> <<"WSW", "W", "WNW", "NNW", "N", "NNE", "ENE", "E", "ESE">>, pennant |-> TRUE],
       [region_type |-> "Field", edges |-> <<"SSE">>, pennant |-> FALSE],
       [region_type |-> "Road", edges |-> <<"S">>, pennant |-> FALSE],
       [region_type |-> "Field", edges |-> <<"SSW">>, pennant |-> FALSE] >>]

CORNER_ROAD_WITH_CORNER_CITY ==
  [name |-> "CORNER_ROAD_WITH_CORNER_CITY", count |-> 3, regions |-> <<
       [region_type |-> "Road", edges |-> <<"N", "W">>, pennant |-> FALSE],
       [region_type |-> "Field", edges |-> <<"NNE", "WSW">>, pennant |-> FALSE],
       [region_type |-> "City", edges |-> <<"ENE", "E", "ESE", "SSE", "S", "SSW">>, pennant |-> FALSE],
       [region_type |-> "Field", edges |-> <<"WNW", "NNW">>, pennant |-> FALSE] >>]

STRAIGHT_RIVER_WITH_TWO_SIDE_CITIES ==
  [name |-> "STRAIGHT_RIVER_WITH_TWO_SIDE_CITIES", count |-> 1, regions |-> <<
       [region_type |-> "City", edges |-> <<"NNW", "N", "NNE">>, pennant |-> FALSE],
       [region_type |-> "Field", edges |-> <<"ENE", "WNW">>, pennant |-> FALSE],
       [region_type |-> "Water", edges |-> <<"E", "W">>, pennant |-> FALSE],
       [region_type |-> "Field", edges |-> <<"ESE", "WSW">>, pennant |-> FALSE],
       [region_type |-> "City", edges |-> <<"SSE", "S", "SSW">>, pennant |-> FALSE] >>]

CORNER_ROAD_WITH_SIDE_CITY ==
  [name |-> "CORNER_ROAD_WITH_SIDE_CITY", count |-> 3, regions |-> <<
       [region_type |-> "City", edges |-> <<"NNW", "N", "NNE">>, pennant |-> FALSE],
       [region_type |-> "Field", edges |-> <<"ENE", "E", "ESE", "SSE", "WNW">>, pennant |-> FALSE],
       [region_type |-> "Road", edges |-> <<"S", "W">>, pennant |-> FALSE],
       [region_type |-> "Field", edges |-> <<"SSW", "WSW">>, pennant |-> FALSE] >>]

CLOISTER_WITH_ROAD_AND_RIVER ==
  [name |-> "CLOISTER_WITH_ROAD_AND_RIVER", count |-> 1, regions |-> <<
       [region_type |-> "Road", edges |-> <<"N">>, pennant |-> FALSE],
       [region_type |-> "Field", edges |-> <<"NNE", "ENE">>, pennant |-> FALSE],
       [region_type |-> "Field", edges |-> <<"WNW", "NNW">>, pennant |-> FALSE],
       [region_type |-> "Water", edges |-> <<"E", "W">>, pennant |-> FALSE],
       [region_type |-> "Field", edges |-> <<"ESE", "SSE", "S", "SSW", "WSW">>, pennant |-> FALSE],
       [region_type |-> "Cloister", edges |-> <<>>, pennant |-> FALSE] >>]

CLOISTER_IN_FIELD ==
  [name |-> "CLOISTER_IN_FIELD", count |-> 4, regions |-> <<
       [region_type |-> "Field", edges |-> <<"N", "NNE", "ENE", "E", "ESE", "SSE", "S", "SSW", "WSW", "W", "WNW", "NNW">>, pennant |-> FALSE],
       [region_type |-> "Cloister", edges |-> <<>>, pennant |-> FALSE] >>]

THREE_SIDED_CITY ==
  [name |-> "THREE_SIDED_CITY", count |-> 3, regions |-> <<
       [region_type |-> "Field", edges |-> <<"NNW", "N", "NNE">>, pennant |-> FALSE],
       [region_type |-> "City", edges |-> <<"ENE", "E", "ESE", "SSE", "S", "SSW", "WSW", "W", "WNW">>, pennant |-> FALSE] >>]

CENTRE_CITY_WITH_PENNANT ==
  [name |-> "CENTRE_CITY_WITH_PENNANT", count |-> 1, regions |-> <<
       [region_type |-> "City", edges |-> <<"N", "NNE", "ENE", "E", "ESE", "SSE", "S", "SSW", "WSW", "W", "WNW", "NNW">>, pennant |-> TRUE] >>]

SIDE_CITY_WITH_STRAIGHT_RIVER_AND_BRIDGE ==
  [name |-> "SIDE_CITY_WITH_STRAIGHT_RIVER_AND_BRIDGE", count |-> 1, regions |-> <<
       [region_type |-> "City", edges |-> <<"NNW", "N", "NNE">>, pennant |-> FALSE],
       [region_type |-> "Field", edges |-> <<"ENE">>, pennant |-> FALSE],
       [region_type |-> "Water", edges |-> <<"E", "W">>, pennant |-> FALSE],
       [region_type |-> "Field", edges |-> <<"ESE", "SSE">>, pennant |-> FALSE],
       [region_type |-> "Road", edges |-> <<"S">>, pennant |-> FALSE],
       [region_type |-> "Field", edges |-> <<"SSW", "WSW">>, pennant |-> FALSE],
       [region_type |-> "Field", edges |-> <<"WNW">>, pennant |-> FALSE] >>]

STRAIGHT_ROAD ==
  [name |-> "STRAIGHT_ROAD", count |-> 8, regions |-> <<
       [region_type |-> "Road", edges |-> <<"N", "S">>, pennant |-> FALSE],
       [region_type |-> "Field", edges |-> <<"NNE", "ENE", "E", "ESE", "SSE">>, pennant |-> FALSE],
       [region_type |-> "Field", edges |-> <<"SSW", "WSW", "W", "WNW", "NNW">>, pennant |-> FALSE] >>]

STRAIGHT_RIVER_WITH_STRAIGHT_ROAD_AND_BRIDGE ==
  [name |-> "STRAIGHT_RIVER_WITH_STRAIGHT_ROAD_AND_BRIDGE", count |-> 1, regions |-> <<
       [region_type |-> "Road", edges |-> <<"N", "S">>, pennant |-> FALSE],
       [region_type |-> "Field", edges |-> <<"NNE", "ENE">>, pennant |-> FALSE],
       [region_type |-> "Water", edges |-> <<"E", "W">>, pennant |-> FALSE],
       [region_type |-> "Field", edges |-> <<"ESE", "SSE">>, pennant |-> FALSE],
       [region_type |-> "Field", edges |-> <<"SSW", "WSW">>, pennant |-> FALSE],
       [region_type |-> "Field", edges |-> <<"WNW", "NNW">>, pennant |-> FALSE] >>]

CORNER_CITY_WITH_PENNANT ==
  [name |-> "CORNER_CITY_WITH_PENNANT", count |-> 2, regions |-> <<
       [region_type |-> "Field", edges |-> <<"NNW", "N", "NNE", "ENE", "E", "ESE">>, pennant |-> FALSE],
       [region_type |-> "City", edges |-> <<"SSE", "S", "SSW", "WSW", "W", "WNW">>, pennant |-> TRUE] >>]

THREE_SIDED_CITY_WITH_PENNANT ==
  [name |-> "THREE_SIDED_CITY_WITH_PENNANT", count |-> 1, regions |-> <<
       [region_type |-> "City", edges |-> <<"SSE", "S", "SSW", "WSW", "W", "WNW", "NNW", "N", "NNE">>, pennant |-> TRUE],
       [region_type |-> "Field", edges |-> <<"ENE", "E", "ESE">>, pennant |-> FALSE] >>]

CORNER_CITY_WITH_CORNER_RIVER ==
  [name |-> "CORNER_CITY_WITH_CORNER_RIVER", count |-> 1, regions |-> <<
       [region_type |-> "City", edges |-> <<"NNW", "N", "NNE", "ENE", "E", "ESE">>, pennant |-> FALSE],
       [region_type |-> "Field", edges |-> <<"SSE", "WNW">>, pennant |-> FALSE],
       [region_type |-> "Field", edges |-> <<"SSW", "WSW">>, pennant |-> FALSE],
       [region_type |-> "Water", edges |-> <<"S", "W">>, pennant |-> FALSE] >>]

STRAIGHT_RIVER ==
  [name |-> "STRAIGHT_RIVER", count |-> 2, regions |-> <<
       [region_type |-> "Water", edges |-> <<"N", "S">>, pennant |-> FALSE],
       [region_type |-> "Field", edges |-> <<"NNE", "ENE", "E", "ESE", "SSE">>, pennant |-> FALSE],
       [region_type |-> "Field", edges |-> <<"SSW", "WSW", "W", "WNW", "NNW">>, pennant |-> FALSE] >>]

CORNER_RIVER ==
  [name |-> "CORNER_RIVER", count |-> 2, regions |-> <<
       [region_type |-> "Water", edges |-> <<"N", "W">>, pennant |-> FALSE],
       [region_type |-> "Field", edges |-> <<"NNE", "ENE", "E", "ESE", "SSE", "S", "SSW", "WSW">>, pennant |-> FALSE],
       [region_type |-> "Field", edges |-> <<"WNW", "NNW">>, pennant |-> FALSE] >>]

SIDE_CITY ==
  [name |-> "SIDE_CITY", count |-> 5, regions |-> <<
       [region_type |-> "Field", edges |-> <<"WSW", "W", "WNW", "NNW", "N", "NNE", "ENE", "E", "ESE">>, pennant |-> FALSE],
       [region_type |-> "City", edges |-> <<"SSE", "S", "SSW">>, pennant |-> FALSE] >>]

OPPOSING_SIDE_CITIES ==
  [name |-> "OPPOSING_SIDE_CITIES", count |-> 3, regions |-> <<
       [region_type |-> "City", edges |-> <<"NNW", "N", "NNE">>, pennant |-> FALSE],
       [region_type |-> "Field", edges |-> <<"ENE", "E", "ESE", "WSW", "W", "WNW">>, pennant |-> FALSE],
       [region_type |-> "City", edges |-> <<"SSE", "S", "SSW">>, pennant |-> FALSE] >>]

THREE_SIDED_CITY_WITH_ROAD ==
  [name |-> "THREE_SIDED_CITY_WITH_ROAD", count |-> 1, regions |-> <<
       [region_type |-> "City", edges |-> <<"SSE", "S", "SSW", "WSW", "W", "WNW", "NNW", "N", "NNE">>, pennant |-> FALSE],
       [region_type |-> "Field", edges |-> <<"ENE">>, pennant |-> FALSE],
       [region_type |-> "Road", edges |-> <<"E">>, pennant |-> FALSE],
       [region_type |-> "Field", edges |-> <<"ESE">>, pennant |-> FALSE] >>]

STRAIGHT_ROAD_WITH_RIGHT_CORNER_ROAD ==
  [name |-> "STRAIGHT_ROAD_WITH_RIGHT_CORNER_ROAD", count |-> 3, regions |-> <<
       [region_type |-> "City", edges |-> <<"NNW", "N", "NNE">>, pennant |-> FALSE],
       [region_type |-> "Field", edges |-> <<"ENE", "SSW", "WSW", "W", "WNW">>, pennant |-> FALSE],
       [region_type |-> "Road", edges |-> <<"E", "S">>, pennant |-> FALSE],
       [region_type |-> "Field", edges |-> <<"ESE", "SSE">>, pennant |-> FALSE] >>]

CLOISTER_WITH_ROAD ==
  [name |-> "CLOISTER_WITH_ROAD", count |-> 2, regions |-> <<
       [region_type |-> "Road", edges |-> <<"N">>, pennant |-> FALSE],
       [region_type |-> "Field", edges |-> <<"NNE", "ENE", "E", "ESE", "SSE", "S", "SSW", "WSW", "W", "WNW", "NNW">>, pennant |-> FALSE],
       [region_type |-> "Cloister", edges |-> <<>>, pennant |-> FALSE] >>]

ALL_TILE_DEFINITIONS ==
  << CROSS_INTERSECTION,
     THREE_WAY_JUNCTION_WITH_CITY,
     STRAIGHT_CITY_WITH_SIDE_FIELDS,
     STRAIGHT_CITY_WITH_SIDE_FIELDS_AND_PENNANT,
     STRAIGHT_ROAD_WITH_SIDE_CITY,
     FIELD_WITH_TWO_CORNER_CITIES,
     CORNER_ROAD_WITH_PENNANTED_CORNER_CITY,
     THREE_WAY_JUNCTION,
     RIVER_TERMINATOR,
     CORNER_ROAD,
     RIVER_CORNER_WITH_ROAD_CORNER,
     CORNER_CITY,
     SIDE_CITY_WITH_SIDE_ROAD_AND_PENNANT,
     CORNER_ROAD_WITH_CORNER_CITY,
     STRAIGHT_RIVER_WITH_TWO_SIDE_CITIES,
     CORNER_ROAD_WITH_SIDE_CITY,
     CLOISTER_WITH_ROAD_AND_RIVER,
     CLOISTER_IN_FIELD,
     THREE_SIDED_CITY,
     CENTRE_CITY_WITH_PENNANT,
     SIDE_CITY_WITH_STRAIGHT_RIVER_AND_BRIDGE,
     STRAIGHT_ROAD,
     STRAIGHT_RIVER_WITH_STRAIGHT_ROAD_AND_BRIDGE,
     CORNER_CITY_WITH_PENNANT,
     THREE_SIDED_CITY_WITH_PENNANT,
     CORNER_CITY_WITH_CORNER_RIVER,
     STRAIGHT_RIVER,
     CORNER_RIVER,
     SIDE_CITY,
     OPPOSING_SIDE_CITIES,
     THREE_SIDED_CITY_WITH_ROAD,
     STRAIGHT_ROAD_WITH_RIGHT_CORNER_ROAD,
     CLOISTER_WITH_ROAD >>

\* the entry of the catalog of a given name
TileNames == { ALL_TILE_DEFINITIONS[i].name : i \in DOMAIN ALL_TILE_DEFINITIONS }

DefinitionByName ==
  [ name \in TileNames |->
      CHOOSE t \in Range(ALL_TILE_DEFINITIONS) : t.name = name ]

Definition(name) == DefinitionByName[name]

(***************************************************************************)
(* tile.rs: TileDefinition                                                 *)
(***************************************************************************)
\* directed_regions: later regions overwrite earlier ones on the same edge
directed_regions(t) ==
  LET owners(d) == { i \in DOMAIN t.regions : d \in Range(t.regions[i].edges) }
  IN  [ d \in { e \in CardinalDirection : owners(e) # {} } |->
          t.regions[CHOOSE i \in owners(d) : \A j \in owners(d) : j <= i] ]

\* perimeter_regions: filter_map over the 12 directions, clockwise from NNW
filter_map_perimeter(regions) ==
  LET F[i \in 0..12] ==
        IF i = 0 THEN << >>
        ELSE IF PERIMETER_REGION_DIRECTIONS[i] \in DOMAIN regions
             THEN Append(F[i - 1], regions[PERIMETER_REGION_DIRECTIONS[i]].region_type)
             ELSE F[i - 1]
  IN  F[12]

perimeter_regions(t) == filter_map_perimeter(directed_regions(t))

\* iter().cycle().skip(n).take(12)
cycle_skip_take(s, n) ==
  IF Len(s) = 0 THEN << >>
  ELSE [ i \in 1..12 |-> s[((n + i - 1) % Len(s)) + 1] ]

\* list_oriented_region_types that turns the perimeter the other way
list_oriented_region_types_anticlockwise(t, rotations) ==
  cycle_skip_take(perimeter_regions(t), rotations * 3)

\* list_oriented_region_types: cycle().skip((4 - rotations) * 3).take(12)
list_oriented_region_types(t, rotations) ==
  cycle_skip_take(perimeter_regions(t), (4 - rotations) * 3)

(***************************************************************************)
(* tile.rs: PlacedTile.  A placed tile is a record                         *)
(*   [tile, coordinate, rotations, meeple]                                 *)
(* where tile is the catalog entry and meeple is None or                   *)
(* Some(<<region_index, [player_id |-> p]>>); region indices are 0-based.  *)
(***************************************************************************)
PlacedTile(tile, c, rotations, meeple) ==
  [tile |-> tile, coordinate |-> c, rotations |-> rotations, meeple |-> meeple]

Regions(tile) == tile.tile.regions

has_occupied_cloister(tile) ==
  IF IsSome(tile.meeple)
  THEN LET cloisters == { i \in DOMAIN Regions(tile) :
                            Regions(tile)[i].region_type = "Cloister" }
       IN  IF cloisters # {}
           THEN (CHOOSE i \in cloisters : \A j \in cloisters : i <= j) - 1
                  = Unwrap(tile.meeple)[1]
           ELSE FALSE
  ELSE FALSE

PlacedTileEdge(c, d) == [coordinate |-> c, global_direction |-> d]

\* connected_regions.rs: PlacedTileEdge::opposing_tile_edge
opposing_tile_edge(e) ==
  PlacedTileEdge(adjacent_in_direction(e.coordinate, e.global_direction),
                 tile_opposite(e.global_direction))

\* connected_regions.rs: PlacedTileRegion::new
PlacedTileRegion(tile, region_index) ==
  [tile_position |-> tile.coordinate, region_index |-> region_index,
   region |-> Regions(tile)[region_index + 1]]

\* Uuid::new_v4(): an identifier no other region of the board's lifetime
\* carries; the region built for region idx of the tile at c is named by them
NewId(c, idx) == << c, idx >>

\* tile.rs: PlacedTile::own_connected_regions, one region per catalog region
own_connected_regions(tile) ==
  LET regions == Regions(tile)
      c == tile.coordinate
      \* catalog direction -> id of the region that owns it (last writer wins)
      owners(d) == { i \in DOMAIN regions : d \in Range(regions[i].edges) }
      edge_index(d) == NewId(c, (CHOOSE i \in owners(d) : \A j \in owners(d) : j <= i) - 1)
      neighbours(i) ==
        UNION { { adjacent(d)[1], adjacent(d)[2] } : d \in Range(regions[i].edges) }
  IN  [ i \in DOMAIN regions |->
          [ id |-> NewId(c, i - 1),
            region_type |-> regions[i].region_type,
            tile_regions |-> << PlacedTileRegion(tile, i - 1) >>,
            adjacent_regions |->
              { edge_index(d) : d \in neighbours(i) } \ { NewId(c, i - 1) },
            connected_edges |->
              [ e \in { PlacedTileEdge(c, rotate(d, tile.rotations)) :
                          d \in Range(regions[i].edges) } |-> None ] ] ]

\* tile.rs: PlacedTile::get_opposite_river_end_direction aborts when the tile
\* has no Water region (expect("should be river tile")) or its first Water
\* region does not have two edges (assert_eq!(rotated_edges.len(), 2))
river_end_panics(tile) ==
  /\ tile.tile # RIVER_TERMINATOR
  /\ LET regions == Regions(tile)
         waters == { i \in DOMAIN regions : regions[i].region_type = "Water" }
     IN  \/ waters = {}
         \/ Len(regions[CHOOSE i \in waters : \A j \in waters : i <= j].edges) # 2

\* tile.rs: PlacedTile::get_opposite_river_end_direction, where it returns:
\* the first rotated edge of the first Water region that is not direction
get_opposite_river_end_direction(tile, direction) ==
  IF tile.tile = RIVER_TERMINATOR THEN None
  ELSE LET regions == Regions(tile)
           waters == { i \in DOMAIN regions : regions[i].region_type = "Water" }
           region == regions[CHOOSE i \in waters : \A j \in waters : i <= j]
           rotated_edges == [ k \in DOMAIN region.edges |->
                                rotate(region.edges[k], tile.rotations) ]
           hits == { k \in DOMAIN rotated_edges : rotated_edges[k] # direction }
       IN  IF hits = {} THEN None
           ELSE Some(rotated_edges[CHOOSE k \in hits : \A j \in hits : k <= j])

\* tile.rs: PlacedTile::list_regions_on_edge, for a primary direction
skip_take_three(edges, skip) == [ i \in 1..3 |-> edges[skip + i] ]

list_regions_on_edge(tile, cardinal_direction) ==
  skip_take_three(list_oriented_region_types(tile.tile, tile.rotations),
                  CASE cardinal_direction = "N" -> 0
                    [] cardinal_direction = "E" -> 3
                    [] cardinal_direction = "S" -> 6
                    [] cardinal_direction = "W" -> 9)

(***************************************************************************)
(* connected_regions.rs: ConnectedRegion                                   *)
(***************************************************************************)
\* Result<T, E>
Ok(v) == [ok |-> TRUE, value |-> << v >>, error |-> "none"]

Err(e) == [ok |-> FALSE, value |-> << >>, error |-> e]

\* merge_mut that forgets to take over the members of the absorbed region
merge_mut_own_members_only(self, other) ==
  IF self.region_type # other.region_type THEN Err("RegionTypeMismatch")
  ELSE Ok([ self EXCEPT
         !.adjacent_regions = self.adjacent_regions \cup other.adjacent_regions,
         !.connected_edges =
           [ k \in DOMAIN self.connected_edges \cup
                    { e \in DOMAIN other.connected_edges :
                        opposing_tile_edge(e) \notin DOMAIN self.connected_edges } |->
               IF k \in DOMAIN other.connected_edges THEN other.connected_edges[k]
               ELSE IF \E e \in DOMAIN other.connected_edges : opposing_tile_edge(e) = k
                    THEN Some(CHOOSE e \in DOMAIN other.connected_edges :
                                opposing_tile_edge(e) = k)
                    ELSE self.connected_edges[k] ] ])

\* merge_mut that absorbs a region only while the survivor is a single member
merge_mut_first_candidate_only(self, other) ==
  IF self.region_type # other.region_type THEN Err("RegionTypeMismatch")
  ELSE IF Len(self.tile_regions) > 1 THEN Ok(self)
  ELSE Ok([ self EXCEPT
         !.tile_regions = self.tile_regions \o other.tile_regions,
         !.adjacent_regions = self.adjacent_regions \cup other.adjacent_regions,
         !.connected_edges =
           [ k \in DOMAIN self.connected_edges \cup
                    { e \in DOMAIN other.connected_edges :
                        opposing_tile_edge(e) \notin DOMAIN self.connected_edges } |->
               IF k \in DOMAIN other.connected_edges THEN other.connected_edges[k]
               ELSE IF \E e \in DOMAIN other.connected_edges : opposing_tile_edge(e) = k
                    THEN Some(CHOOSE e \in DOMAIN other.connected_edges :
                                opposing_tile_edge(e) = k)
                    ELSE self.connected_edges[k] ] ])

\* merge_mut that leaves the survivor's edge unmatched where the absorbed
\* region brings the edge facing it
merge_mut_edges_unmatched(self, other) ==
  IF self.region_type # other.region_type THEN Err("RegionTypeMismatch")
  ELSE Ok([ self EXCEPT
         !.tile_regions = self.tile_regions \o other.tile_regions,
         !.adjacent_regions = self.adjacent_regions \cup other.adjacent_regions,
         !.connected_edges =
           [ k \in DOMAIN self.connected_edges \cup
                    { e \in DOMAIN other.connected_edges :
                        opposing_tile_edge(e) \notin DOMAIN self.connected_edges } |->
               IF k \in DOMAIN self.connected_edges THEN self.connected_edges[k]
               ELSE other.connected_edges[k] ] ])

\* merge_mut that records every edge of the merged region as matched
merge_mut_all_matched(self, other) ==
  IF self.region_type # other.region_type THEN Err("RegionTypeMismatch")
  ELSE Ok([ self EXCEPT
         !.tile_regions = self.tile_regions \o other.tile_regions,
         !.adjacent_regions = self.adjacent_regions \cup other.adjacent_regions,
         !.connected_edges =
           [ k \in DOMAIN self.connected_edges \cup
                    { e \in DOMAIN other.connected_edges :
                        opposing_tile_edge(e) \notin DOMAIN self.connected_edges } |->
               Some(opposing_tile_edge(k)) ] ])

\* merge_mut: the survivor absorbs members, adjacency and edges of other; an
\* incoming edge whose opposing edge the survivor holds closes that boundary
\* (the survivor's entry there becomes Some(incoming edge)), any other
\* incoming edge is inserted with its value
merge_mut(self, other) ==
  IF self.region_type # other.region_type THEN Err("RegionTypeMismatch")
  ELSE LET own == DOMAIN self.connected_edges
           incoming == DOMAIN other.connected_edges
           closing == { e \in incoming : opposing_tile_edge(e) \in own }
           kept == incoming \ closing
       IN  Ok([ self EXCEPT
               !.tile_regions = self.tile_regions \o other.tile_regions,
               !.adjacent_regions = self.adjacent_regions \cup other.adjacent_regions,
               !.connected_edges =
                 [ k \in own \cup kept |->
                     IF k \in kept THEN other.connected_edges[k]
                     ELSE IF \E e \in closing : opposing_tile_edge(e) = k
                          THEN Some(CHOOSE e \in closing : opposing_tile_edge(e) = k)
                          ELSE self.connected_edges[k] ] ])

\* is_closed: values().all(|e| e.is_some())
is_closed(region) ==
  \A e \in DOMAIN region.connected_edges : IsSome(region.connected_edges[e])

(***************************************************************************)
(* board.rs: Board.  A board is a record                                   *)
(*   [placed_tiles, connected_regions, region_index]                       *)
(* placed_tiles is the insertion-ordered tile table (a sequence whose      *)
(* coordinates are its keys), connected_regions maps region IDs to         *)
(* regions, region_index maps placed-tile edges to region IDs.             *)
(***************************************************************************)
EmptyBoard ==
  [placed_tiles |-> << >>, connected_regions |-> << >>, region_index |-> << >>]

occupied(board) == { board.placed_tiles[i].coordinate : i \in DOMAIN board.placed_tiles }

get_tile_at_coordinate(board, c) ==
  LET hits == { i \in DOMAIN board.placed_tiles : board.placed_tiles[i].coordinate = c }
  IN  IF hits = {} THEN None ELSE Some(board.placed_tiles[CHOOSE i \in hits : TRUE])

\* filter_map over surrounding_coordinates, in their order
list_surrounding_tiles(board, c) ==
  LET cells == surrounding_coordinates(c)
      F[i \in 0..8] ==
        IF i = 0 THEN << >>
        ELSE LET t == get_tile_at_coordinate(board, cells[i])
             IN  IF IsSome(t) THEN Append(F[i - 1], Unwrap(t)) ELSE F[i - 1]
  IN  F[8]

\* the three kinds a neighbour presents on a side, None for each without one
some_each(kinds) == [ i \in DOMAIN kinds |-> Some(kinds[i]) ]

regions_on_side(adjacent_tile, cardinal_direction) ==
  IF IsSome(adjacent_tile)
  THEN some_each(list_regions_on_edge(Unwrap(adjacent_tile), cardinal_direction))
  ELSE << None, None, None >>

\* flatten() over the four sides
flatten(sides) == sides[1] \o sides[2] \o sides[3] \o sides[4]

\* get_surrounding_regions that reads the neighbour's side of the same name
\* instead of the side that faces the coordinate
get_surrounding_regions_same_side(board, c) ==
  flatten([ i \in 1..4 |->
    regions_on_side(get_tile_at_coordinate(board, adjacent_coordinates(c)[i][2]),
                    adjacent_coordinates(c)[i][1]) ])

\* get_surrounding_regions: for N, E, S, W in turn the three kinds the
\* neighbour presents on its facing side, None where there is no neighbour
get_surrounding_regions(board, c) ==
  flatten([ i \in 1..4 |->
    regions_on_side(get_tile_at_coordinate(board, adjacent_coordinates(c)[i][2]),
                    compass_opposite(adjacent_coordinates(c)[i][1])) ])

get_candidate_regions_to_merge(board, connected_region) ==
  { board.region_index[opposing_tile_edge(e)] :
      e \in { k \in DOMAIN connected_region.connected_edges :
                opposing_tile_edge(k) \in DOMAIN board.region_index } }

\* ConnectedRegion::residents: the (tile, region index, meeple) triples of
\* the meeples that stand on a member of the region, found by walking the
\* members in order and looking each member's tile up in the tile table
residents(region, board) ==
  LET members == region.tile_regions
      F[i \in 0..Len(members)] ==
        IF i = 0 THEN << >>
        ELSE LET t == get_tile_at_coordinate(board, members[i].tile_position)
             IN  IF /\ IsSome(t)
                    /\ IsSome(Unwrap(t).meeple)
                    /\ Unwrap(Unwrap(t).meeple)[1] = members[i].region_index
                 THEN Append(F[i - 1], << Unwrap(t), members[i].region_index,
                                          Unwrap(Unwrap(t).meeple)[2] >>)
                 ELSE F[i - 1]
  IN  F[Len(members)]

(***************************************************************************)
(* score.rs: Score, a map from player to points                            *)
(***************************************************************************)
Score_new == << >>

add_score(score, player_id, points) ==
  IF player_id \in DOMAIN score
  THEN [ score EXCEPT ![player_id] = @ + points ]
  ELSE [ p \in DOMAIN score \cup { player_id } |->
           IF p = player_id THEN points ELSE score[p] ]

\* AddAssign for Score
add_assign(score, rhs) ==
  [ p \in DOMAIN score \cup DOMAIN rhs |->
      (IF p \in DOMAIN score THEN score[p] ELSE 0)
        + (IF p \in DOMAIN rhs THEN rhs[p] ELSE 0) ]

Points(score, player_id) ==
  IF player_id \in DOMAIN score THEN score[player_id] ELSE 0

RECURSIVE SumSeq(_)
SumSeq(s) == IF s = << >> THEN 0 ELSE Head(s) + SumSeq(Tail(s))

\* ConnectedRegion::score that counts a member with a pennant as any other
region_score_pennant_ignored(region, board) ==
  CASE region.region_type = "City" ->
         IF is_closed(region) THEN Len(region.tile_regions) * 2
         ELSE Len(region.tile_regions)
    [] region.region_type = "Field" ->
         3 * Cardinality({ id \in region.adjacent_regions :
               /\ id \in DOMAIN board.connected_regions
               /\ board.connected_regions[id].region_type = "City"
               /\ is_closed(board.connected_regions[id]) })
    [] region.region_type = "Cloister" ->
         Len(list_surrounding_tiles(board, region.tile_regions[1].tile_position)) + 1
    [] region.region_type = "Road" -> Len(region.tile_regions)
    [] region.region_type = "Water" -> 0

\* ConnectedRegion::score
region_score(region, board) ==
  CASE region.region_type = "City" ->
         LET base_score ==
               SumSeq([ i \in DOMAIN region.tile_regions |->
                 IF region.tile_regions[i].region.pennant THEN 2 ELSE 1 ])
         IN  IF is_closed(region) THEN base_score * 2 ELSE base_score
    [] region.region_type = "Field" ->
         3 * Cardinality({ id \in region.adjacent_regions :
               /\ id \in DOMAIN board.connected_regions
               /\ board.connected_regions[id].region_type = "City"
               /\ is_closed(board.connected_regions[id]) })
    [] region.region_type = "Cloister" ->
         Len(list_surrounding_tiles(board, region.tile_regions[1].tile_position)) + 1
    [] region.region_type = "Road" -> Len(region.tile_regions)
    [] region.region_type = "Water" -> 0

\* ConnectedRegion::majority_meeple_player_ids: the owners whose number of
\* meeples on the region is the maximum
most_meeples(residents_of_region) ==
  LET owners == { residents_of_region[i][3].player_id : i \in DOMAIN residents_of_region }
      count(p) == Cardinality({ i \in DOMAIN residents_of_region :
                                  residents_of_region[i][3].player_id = p })
  IN  { p \in owners : \A q \in owners : count(q) <= count(p) }

majority_meeple_player_ids(region, board) == most_meeples(residents(region, board))

\* ConnectedRegion::majority_meeple_player_id: the Option<PlayerId> values the
\* call can give, None without a meeple and otherwise one majority owner
one_of(player_ids) ==
  IF player_ids = {} THEN { None } ELSE { Some(p) : p \in player_ids }

majority_meeple_player_id(region, board) ==
  one_of(majority_meeple_player_ids(region, board))

\* Board::calculate_board_score (score.rs)
calculate_board_score(board) ==
  LET ids == DOMAIN board.connected_regions
      RECURSIVE Acc(_)
      Acc(S) ==
        IF S = {} THEN Score_new
        ELSE LET id == CHOOSE x \in S : TRUE
                 region == board.connected_regions[id]
                 winners == majority_meeple_player_ids(region, board)
                 this == [ p \in winners |-> region_score(region, board) ]
             IN  add_assign(Acc(S \ { id }), this)
  IN  Acc(ids)

(***************************************************************************)
(* board.rs: Board::validate_tile_placement.  The value is "Ok", the name  *)
(* of the InvalidTilePlacement variant, or "panic" where the code aborts.  *)
(***************************************************************************)
\* the pairs the zip of the tile's oriented kinds with the neighbours' gives
region_pairings(own_regions, surrounding_regions) ==
  [ i \in 1..(IF Len(own_regions) < Len(surrounding_regions)
              THEN Len(own_regions) ELSE Len(surrounding_regions)) |->
      << own_regions[i], surrounding_regions[i] >> ]

\* the river rules that ask for two pairings of Water with Water
validate_river_two_pairings(board, tile, pairings) ==
  IF Cardinality({ i \in DOMAIN pairings :
                     pairings[i] = << "Water", Some("Water") >> }) < 2
  THEN "RiverMustBeConnected"
  ELSE IF tile.tile = RIVER_TERMINATOR THEN "Ok"
  ELSE LET prev_tile == board.placed_tiles[Len(board.placed_tiles)]
           direction_to_prev ==
             direction_to_adjacent_coordinate(tile.coordinate, prev_tile.coordinate)
       IN  IF direction_to_prev = "panic" THEN "panic"
           ELSE IF river_end_panics(tile) \/ river_end_panics(prev_tile) THEN "panic"
           ELSE IF get_opposite_river_end_direction(prev_tile,
                                       compass_opposite(direction_to_prev))
                     = get_opposite_river_end_direction(tile, direction_to_prev)
                THEN "RiverMustNotImmediatelyTurnOnItself"
                ELSE "Ok"

\* the river rules, applied to a tile that presents Water
validate_river(board, tile, pairings) ==
  IF Cardinality({ i \in DOMAIN pairings :
                     pairings[i] = << "Water", Some("Water") >> }) < 1
  THEN "RiverMustBeConnected"
  ELSE IF tile.tile = RIVER_TERMINATOR THEN "Ok"
  ELSE LET prev_tile == board.placed_tiles[Len(board.placed_tiles)]
           direction_to_prev ==
             direction_to_adjacent_coordinate(tile.coordinate, prev_tile.coordinate)
       IN  IF direction_to_prev = "panic" THEN "panic"
           ELSE IF river_end_panics(tile) \/ river_end_panics(prev_tile) THEN "panic"
           ELSE IF get_opposite_river_end_direction(prev_tile,
                                       compass_opposite(direction_to_prev))
                     = get_opposite_river_end_direction(tile, direction_to_prev)
                THEN "RiverMustNotImmediatelyTurnOnItself"
                ELSE "Ok"

\* the meeple rule that looks at the first region of the tile, whichever
\* region the meeple stands on
validate_meeple_first_region(board, tile, tile_connected_regions) ==
  LET meeple_connected_regions ==
        { i \in DOMAIN tile_connected_regions :
            \E tr \in Range(tile_connected_regions[i].tile_regions) :
              tr.region_index = 0 }
      joined == UNION { get_candidate_regions_to_merge(board, tile_connected_regions[i]) :
                          i \in meeple_connected_regions }
  IN  IF \E id \in joined : id \notin DOMAIN board.connected_regions THEN "panic"
      ELSE IF \E id \in joined : residents(board.connected_regions[id], board) # << >>
           THEN "OtherMeepleAlreadyInConnectedRegion"
           ELSE "Ok"

\* the meeple rule: no region that would merge with the meeple's region may
\* hold a meeple already
validate_meeple(board, tile, tile_connected_regions) ==
  LET region_index == Unwrap(tile.meeple)[1]
      meeple_connected_regions ==
        { i \in DOMAIN tile_connected_regions :
            \E tr \in Range(tile_connected_regions[i].tile_regions) :
              tr.region_index = region_index }
      joined == UNION { get_candidate_regions_to_merge(board, tile_connected_regions[i]) :
                          i \in meeple_connected_regions }
  IN  IF \E id \in joined : id \notin DOMAIN board.connected_regions THEN "panic"
      ELSE IF \E id \in joined : residents(board.connected_regions[id], board) # << >>
           THEN "OtherMeepleAlreadyInConnectedRegion"
           ELSE "Ok"

\* validate_meeple_index that lets a meeple onto a Water region
validate_meeple_index_range_only(tile) ==
  IF ~IsSome(tile.meeple) THEN "Ok"
  ELSE IF Unwrap(tile.meeple)[1] + 1 \notin DOMAIN Regions(tile)
       THEN "InvalidMeeplePlacementIndex"
       ELSE "Ok"

\* lines 281-288: the meeple's region index
validate_meeple_index(tile) ==
  IF ~IsSome(tile.meeple) THEN "Ok"
  ELSE IF Unwrap(tile.meeple)[1] + 1 \notin DOMAIN Regions(tile)
       THEN "InvalidMeeplePlacementIndex"
       ELSE IF Regions(tile)[Unwrap(tile.meeple)[1] + 1].region_type = "Water"
            THEN "MeepleCannotBePlacedInRiver"
            ELSE "Ok"

\* lines 344-365, reached once the river rules have passed
validate_after_river(river, board, tile) ==
  IF river # "Ok" THEN river
  ELSE IF IsSome(tile.meeple)
       THEN validate_meeple(board, tile, own_connected_regions(tile))
       ELSE "Ok"

\* validate_against_neighbours that does not ask for a neighbouring tile
validate_against_neighbours_no_contact(board, tile, own_regions, surrounding_regions) ==
  IF \E i \in DOMAIN region_pairings(own_regions, surrounding_regions) :
       /\ IsSome(surrounding_regions[i])
       /\ Unwrap(surrounding_regions[i]) # own_regions[i]
  THEN "TileEdgesDoNotMatchPlacedTiles"
  ELSE validate_after_river(
         IF \E i \in DOMAIN own_regions : own_regions[i] = "Water"
         THEN validate_river(board, tile,
                             region_pairings(own_regions, surrounding_regions))
         ELSE "Ok",
         board, tile)

\* lines 299-365, on the kinds of the tile and of its neighbours
validate_against_neighbours(board, tile, own_regions, surrounding_regions) ==
  IF \A i \in DOMAIN surrounding_regions : surrounding_regions[i] = None
  THEN "TileDoesNotContactPlacedTiles"
  ELSE IF \E i \in DOMAIN region_pairings(own_regions, surrounding_regions) :
            /\ IsSome(surrounding_regions[i])
            /\ Unwrap(surrounding_regions[i]) # own_regions[i]
       THEN "TileEdgesDoNotMatchPlacedTiles"
       ELSE validate_after_river(
              IF \E i \in DOMAIN own_regions : own_regions[i] = "Water"
              THEN validate_river(board, tile,
                                  region_pairings(own_regions, surrounding_regions))
              ELSE "Ok",
              board, tile)

\* validate_tile_placement that does not ask whether the coordinate is taken
validate_tile_placement_any_coordinate(board, tile) ==
  IF validate_meeple_index(tile) # "Ok" THEN validate_meeple_index(tile)
  ELSE IF board.placed_tiles = << >> THEN "Ok"
  ELSE validate_against_neighbours(
         board, tile,
         list_oriented_region_types(tile.tile, tile.rotations),
         get_surrounding_regions(board, tile.coordinate))

\* validate_tile_placement that treats the first tile like any other
validate_tile_placement_first_tile_checked(board, tile) ==
  IF validate_meeple_index(tile) # "Ok" THEN validate_meeple_index(tile)
  ELSE IF tile.coordinate \in occupied(board) THEN "TileAlreadyAtCoordinate"
  ELSE validate_against_neighbours(
         board, tile,
         list_oriented_region_types(tile.tile, tile.rotations),
         get_surrounding_regions(board, tile.coordinate))

validate_tile_placement(board, tile) ==
  IF validate_meeple_index(tile) # "Ok" THEN validate_meeple_index(tile)
  ELSE IF board.placed_tiles = << >> THEN "Ok"
  ELSE IF tile.coordinate \in occupied(board) THEN "TileAlreadyAtCoordinate"
  ELSE validate_against_neighbours(
         board, tile,
         list_oriented_region_types(tile.tile, tile.rotations),
         get_surrounding_regions(board, tile.coordinate))

(***************************************************************************)
(* board.rs: Board::place_tile.  The commit works on a record              *)
(*   [board, liberated_meeple, score_delta, status]                        *)
(* and yields the set of records the call can end in: the order in which   *)
(* the HashSet of merge candidates is walked is not fixed.                 *)
(***************************************************************************)
insert(map, key, value) ==
  [ k \in DOMAIN map \cup { key } |-> IF k = key THEN value ELSE map[k] ]

remove(map, key) == [ k \in DOMAIN map \ { key } |-> map[k] ]

\* lines 164-168: remove each candidate from the region table and merge it
RECURSIVE merge_candidates(_, _, _)
merge_candidates(connected_region, regions_to_merge, table) ==
  IF regions_to_merge = {}
  THEN { [status |-> "Ok", region |-> connected_region, table |-> table] }
  ELSE UNION {
         IF region_id \notin DOMAIN table
         THEN { [status |-> "panic: should exist", region |-> connected_region,
                 table |-> table] }
         ELSE LET merged == merge_mut(connected_region, table[region_id])
              IN  IF ~merged.ok
                  THEN { [status |-> "panic: should merge", region |-> connected_region,
                          table |-> remove(table, region_id)] }
                  ELSE merge_candidates(Unwrap(merged.value),
                                        regions_to_merge \ { region_id },
                                        remove(table, region_id))
         : region_id \in regions_to_merge }

\* liberate_residents that takes the meeples off the tiles and returns none
liberate_residents_unlisted(placed_tiles, connected_region, resident_tile_coordinates) ==
  [ placed_tiles |->
      [ i \in DOMAIN placed_tiles |->
          IF /\ placed_tiles[i].coordinate \in Range(resident_tile_coordinates)
             /\ IsSome(placed_tiles[i].meeple)
             /\ \E r \in Range(connected_region.tile_regions) :
                  /\ r.tile_position = placed_tiles[i].coordinate
                  /\ r.region_index = Unwrap(placed_tiles[i].meeple)[1]
          THEN [ placed_tiles[i] EXCEPT !.meeple = None ]
          ELSE placed_tiles[i] ],
    liberated_meeple_for_region |-> << >> ]

\* lines 179-192: take the meeple of every resident tile of the closed region
liberate_residents(placed_tiles, connected_region, resident_tile_coordinates) ==
  LET taken(t) ==
        /\ t.coordinate \in Range(resident_tile_coordinates)
        /\ IsSome(t.meeple)
        /\ \E r \in Range(connected_region.tile_regions) :
             /\ r.tile_position = t.coordinate
             /\ r.region_index = Unwrap(t.meeple)[1]
      F[i \in 0..Len(resident_tile_coordinates)] ==
        IF i = 0 THEN << >>
        ELSE LET t == CHOOSE u \in Range(placed_tiles) :
                        u.coordinate = resident_tile_coordinates[i]
             IN  IF taken(t) /\ \A j \in 1..(i - 1) :
                                  resident_tile_coordinates[j] # t.coordinate
                 THEN Append(F[i - 1], Unwrap(t.meeple)[2])
                 ELSE F[i - 1]
  IN  [ placed_tiles |->
          [ i \in DOMAIN placed_tiles |->
              IF taken(placed_tiles[i])
              THEN [ placed_tiles[i] EXCEPT !.meeple = None ]
              ELSE placed_tiles[i] ],
        liberated_meeple_for_region |-> F[Len(resident_tile_coordinates)] ]

\* an index rewrite that leaves the entries that exist alone
reindex_absent_only(region_index, connected_region) ==
  [ e \in DOMAIN region_index \cup DOMAIN connected_region.connected_edges |->
      IF e \in DOMAIN region_index THEN region_index[e] ELSE connected_region.id ]

\* lines 170-172: point every edge of the region's edge map at the region
reindex(region_index, connected_region) ==
  [ e \in DOMAIN region_index \cup DOMAIN connected_region.connected_edges |->
      IF e \in DOMAIN connected_region.connected_edges
      THEN connected_region.id ELSE region_index[e] ]

\* the loop body that asks for the majority owner and the score while the
\* meeples still stand on the closed region
commit_region_majority_first(st, own_region) ==
  LET regions_to_merge == get_candidate_regions_to_merge(st.board, own_region)
  IN  UNION {
        IF m.status # "Ok"
        THEN { [ st EXCEPT !.status = m.status, !.board.connected_regions = m.table ] }
        ELSE
          LET connected_region == m.region
              b1 == [ st.board EXCEPT
                        !.connected_regions = m.table,
                        !.region_index = reindex(@, connected_region) ]
          IN  IF is_closed(connected_region)
              THEN LET res == residents(connected_region, b1)
                       resident_tile_coordinates ==
                         [ i \in DOMAIN res |-> res[i][1].coordinate ]
                       lib == liberate_residents(b1.placed_tiles, connected_region,
                                                 resident_tile_coordinates)
                       b2 == [ b1 EXCEPT !.placed_tiles = lib.placed_tiles ]
                   IN  IF /\ connected_region.region_type = "Water"
                          /\ lib.liberated_meeple_for_region # << >>
                       THEN { [ st EXCEPT !.status = "panic: meeple in river",
                                          !.board = b2 ] }
                       ELSE { [ board |->
                                  [ b2 EXCEPT !.connected_regions =
                                      insert(m.table, connected_region.id, connected_region) ],
                                liberated_meeple |->
                                  st.liberated_meeple \o lib.liberated_meeple_for_region,
                                score_delta |->
                                  IF IsSome(winning_player)
                                  THEN add_score(st.score_delta, Unwrap(winning_player),
                                                 region_score(connected_region, b1))
                                  ELSE st.score_delta,
                                status |-> "Ok" ]
                              : winning_player \in
                                  majority_meeple_player_id(connected_region, b1) }
              ELSE { [ st EXCEPT !.board =
                         [ b1 EXCEPT !.connected_regions =
                             insert(m.table, connected_region.id, connected_region) ] ] }
        : m \in merge_candidates(own_region, regions_to_merge, st.board.connected_regions) }

\* lines 162-201: one pass of the loop over the tile's own regions
commit_region(st, own_region) ==
  LET regions_to_merge == get_candidate_regions_to_merge(st.board, own_region)
  IN  UNION {
        IF m.status # "Ok"
        THEN { [ st EXCEPT !.status = m.status, !.board.connected_regions = m.table ] }
        ELSE
          LET connected_region == m.region
              b1 == [ st.board EXCEPT
                        !.connected_regions = m.table,
                        !.region_index = reindex(@, connected_region) ]
          IN  IF is_closed(connected_region)
              THEN LET res == residents(connected_region, b1)
                       resident_tile_coordinates ==
                         [ i \in DOMAIN res |-> res[i][1].coordinate ]
                       lib == liberate_residents(b1.placed_tiles, connected_region,
                                                 resident_tile_coordinates)
                       b2 == [ b1 EXCEPT !.placed_tiles = lib.placed_tiles ]
                   IN  IF /\ connected_region.region_type = "Water"
                          /\ lib.liberated_meeple_for_region # << >>
                       THEN { [ st EXCEPT !.status = "panic: meeple in river",
                                          !.board = b2 ] }
                       ELSE { [ board |->
                                  [ b2 EXCEPT !.connected_regions =
                                      insert(m.table, connected_region.id, connected_region) ],
                                liberated_meeple |->
                                  st.liberated_meeple \o lib.liberated_meeple_for_region,
                                score_delta |->
                                  IF IsSome(winning_player)
                                  THEN add_score(st.score_delta, Unwrap(winning_player),
                                                 region_score(connected_region, b2))
                                  ELSE st.score_delta,
                                status |-> "Ok" ]
                              : winning_player \in
                                  majority_meeple_player_id(connected_region, b2) }
              ELSE { [ st EXCEPT !.board =
                         [ b1 EXCEPT !.connected_regions =
                             insert(m.table, connected_region.id, connected_region) ] ] }
        : m \in merge_candidates(own_region, regions_to_merge, st.board.connected_regions) }

RECURSIVE commit_regions(_, _, _)
commit_regions(sts, tile_connected_regions, i) ==
  IF i > Len(tile_connected_regions) THEN sts
  ELSE commit_regions(
         UNION { IF st.status = "Ok" THEN commit_region(st, tile_connected_regions[i])
                 ELSE { st } : st \in sts },
         tile_connected_regions, i + 1)

\* lines 204-225: insert the tile, then complete the occupied cloisters
\* around it that had seven neighbours before the insertion
complete_cloisters(st, tile) ==
  LET surrounding == list_surrounding_tiles(st.board, tile.coordinate)
      closed(u) ==
        /\ has_occupied_cloister(u)
        /\ Len(list_surrounding_tiles(st.board, u.coordinate)) = 7
      inserted == Append(st.board.placed_tiles, tile)
      F[i \in 0..Len(surrounding)] ==
        IF i = 0 THEN [ st EXCEPT !.board.placed_tiles = inserted ]
        ELSE IF closed(surrounding[i])
             THEN LET k == CHOOSE j \in DOMAIN inserted :
                             inserted[j].coordinate = surrounding[i].coordinate
                      meeple == Unwrap(surrounding[i].meeple)[2]
                  IN  [ F[i - 1] EXCEPT
                          !.board.placed_tiles[k].meeple = None,
                          !.score_delta = add_score(@, meeple.player_id, 8),
                          !.liberated_meeple = Append(@, meeple) ]
             ELSE F[i - 1]
  IN  F[Len(surrounding)]

\* lines 158-233: the commit of a validated tile
commit_tile(board, tile) ==
  LET start == [ board |-> board, liberated_meeple |-> << >>,
                 score_delta |-> Score_new, status |-> "Ok" ]
  IN  { IF st.status = "Ok" THEN complete_cloisters(st, tile) ELSE st
        : st \in commit_regions({ start }, own_connected_regions(tile), 1) }

\* place_tile that enters the tile in the tile table before it validates
place_tile_insert_first(board, tile) ==
  IF validate_tile_placement(board, tile) # "Ok"
  THEN { [ board |-> [ board EXCEPT !.placed_tiles = Append(@, tile) ],
           liberated_meeple |-> << >>, score_delta |-> Score_new,
           status |-> validate_tile_placement(board, tile) ] }
  ELSE commit_tile(board, tile)

\* Board::place_tile: the records [board, liberated_meeple, score_delta, status]
\* the call can return on the given board; a validation error returns before
\* anything is written
validated(valid, board, tile) ==
  IF valid # "Ok"
  THEN { [ board |-> board, liberated_meeple |-> << >>,
           score_delta |-> Score_new, status |-> valid ] }
  ELSE commit_tile(board, tile)

place_tile(board, tile) == validated(validate_tile_placement(board, tile), board, tile)

(***************************************************************************)
(* move_hints.rs: Board::possible_next_tile_coordinates and                *)
(* Board::get_move_hints.  The hints are collected from a parallel         *)
(* iterator, in no fixed order: the value is their set, or the abort of    *)
(* validate_tile_placement on one of the candidates.                       *)
(***************************************************************************)
possible_next_tile_coordinates(board) ==
  IF board.placed_tiles = << >> THEN { << 0, 0 >> }
  ELSE UNION { { adjacent_coordinates(c)[i][2] : i \in 1..4 } : c \in occupied(board) }
         \ occupied(board)

\* rotations filtered by nothing
candidate_rotations_all(tile) == 0..3

\* (0..4).filter(|r| region_sequences.insert(...)): a rotation stays when no
\* rotation before it gave the same twelve kinds
candidate_rotations(tile) ==
  { r \in 0..3 :
      \A q \in 0..(r - 1) :
        list_oriented_region_types(tile, q) # list_oriented_region_types(tile, r) }

\* Meeple::dummy()
Meeple_dummy == [player_id |-> "nil"]

\* the meeple options chained to a placement
meeple_candidates(tile, include_meeple_placement_hints) ==
  IF include_meeple_placement_hints
  THEN { Some(idx) : idx \in 0..(Len(tile.regions) - 1) } \cup { None }
  ELSE { None }

MoveHint(tile, coordinate, rotations, meeple_placement) ==
  [tile |-> tile,
   tile_placement |-> [coordinate |-> coordinate, rotations |-> rotations],
   meeple_placement |-> meeple_placement]

\* the tile instance get_move_hints validates for a hint, and the one the
\* turn loop places for it with a meeple of the player
hinted_tile(hint, meeple) ==
  PlacedTile(hint.tile, hint.tile_placement.coordinate, hint.tile_placement.rotations,
             IF IsSome(hint.meeple_placement)
             THEN Some(<< Unwrap(hint.meeple_placement), meeple >>)
             ELSE None)

candidate_hints(board, tile, include_meeple_placement_hints) ==
  { MoveHint(tile, c, r, m) :
      c \in possible_next_tile_coordinates(board),
      r \in candidate_rotations(tile),
      m \in meeple_candidates(tile, include_meeple_placement_hints) }

get_move_hints(board, tile, include_meeple_placement_hints) ==
  IF \E hint \in candidate_hints(board, tile, include_meeple_placement_hints) :
       validate_tile_placement(board, hinted_tile(hint, Meeple_dummy)) = "panic"
  THEN [status |-> "panic", hints |-> {}]
  ELSE [status |-> "Ok",
        hints |-> { hint \in candidate_hints(board, tile, include_meeple_placement_hints) :
                      validate_tile_placement(board, hinted_tile(hint, Meeple_dummy)) = "Ok" }]

(***************************************************************************)
(* deck.rs: BaseTileSequence, RiverTileSequence and Deck.  A sequence of   *)
(* tiles is a Vec whose last element is the one pop() takes.  The shuffles *)
(* can leave the tiles in any order.  tile_can_be_placed is the closure    *)
(* the deck is built with; `can` is the set of catalog entries it answers  *)
(* true for during one call of next.  A call of next has the value         *)
(*   [self, item, asked]                                                   *)
(* with the sequence after the call, the Option returned, and the answers  *)
(* the closure gave during the call, in their order.                       *)
(***************************************************************************)
\* the copies of an entry that go into a deck, at most
MaxCopies == 2

\* the entries of the catalog the decks are built from
DeckCatalog ==
  { "RIVER_TERMINATOR", "STRAIGHT_RIVER", "CORNER_RIVER", "CORNER_ROAD", "SIDE_CITY" }

\* TileDefinition.expansion: the river tag, carried by the entries with Water
expansion(tile) ==
  IF \E i \in DOMAIN tile.regions : tile.regions[i].region_type = "Water"
  THEN Some("River")
  ELSE None

\* vec![t; t.count]
copies(tile) ==
  [ j \in 1..(IF tile.count < MaxCopies THEN tile.count ELSE MaxCopies) |-> tile ]

\* ALL_TILE_DEFINITIONS.iter().flat_map(|t| vec![t; t.count]), over the
\* entries the decks are built from
RECURSIVE flat_map_copies(_)
flat_map_copies(definitions) ==
  IF definitions = << >> THEN << >>
  ELSE (IF Head(definitions).name \in DeckCatalog THEN copies(Head(definitions)) ELSE << >>)
         \o flat_map_copies(Tail(definitions))

\* tiles.shuffle(rng): the orders the tiles can be left in
shuffle(tiles) ==
  { [ i \in DOMAIN tiles |-> tiles[p[i]] ] : p \in Permutations(DOMAIN tiles) }

\* the Vec without the element pop() takes
popped(tiles) == SubSeq(tiles, 1, Len(tiles) - 1)

BaseTileSequence_new ==
  { [tiles |-> tiles] :
      tiles \in shuffle(SelectSeq(flat_map_copies(ALL_TILE_DEFINITIONS),
                                  LAMBDA t : expansion(t) = None)) }

\* the loop of BaseTileSequence::next: `tile?` returns None out of next when
\* the tiles run out, with the discarded tiles not put back
RECURSIVE base_loop(_, _, _, _)
base_loop(tiles, discarded_tiles, asked, can) ==
  IF tiles = << >>
  THEN { [self |-> [tiles |-> << >>], item |-> None, asked |-> asked] }
  ELSE IF tiles[Len(tiles)] \in can
       THEN { [self |-> [tiles |-> left], item |-> Some(tiles[Len(tiles)]),
               asked |-> Append(asked, << tiles[Len(tiles)], TRUE >>)] :
                left \in IF discarded_tiles = << >>
                         THEN { popped(tiles) }
                         ELSE shuffle(popped(tiles) \o discarded_tiles) }
       ELSE base_loop(popped(tiles), Append(discarded_tiles, tiles[Len(tiles)]),
                      Append(asked, << tiles[Len(tiles)], FALSE >>), can)

\* a next that returns the tile on top whatever the closure says of it
BaseTileSequence_next_top(self, can) ==
  IF self.tiles = << >>
  THEN { [self |-> self, item |-> None, asked |-> << >>] }
  ELSE { [self |-> [tiles |-> popped(self.tiles)],
          item |-> Some(self.tiles[Len(self.tiles)]),
          asked |-> << << self.tiles[Len(self.tiles)],
                          self.tiles[Len(self.tiles)] \in can >> >>] }

BaseTileSequence_next(self, can) == base_loop(self.tiles, << >>, << >>, can)

RiverTileSequence_new ==
  { [tiles |-> tiles, current_index |-> 0, river_exhausted |-> FALSE] :
      tiles \in shuffle(SelectSeq(flat_map_copies(ALL_TILE_DEFINITIONS),
                                  LAMBDA t : expansion(t) = Some("River")
                                               /\ t # RIVER_TERMINATOR)) }

\* RiverTileSequence::next that does not note the end of the river
RiverTileSequence_next_endless(self, can) ==
  IF self.current_index = 0
  THEN [self |-> [ self EXCEPT !.current_index = 1 ],
        item |-> Some(RIVER_TERMINATOR), asked |-> << >>]
  ELSE IF self.tiles = << >>
  THEN [self |-> self, item |-> Some(RIVER_TERMINATOR), asked |-> << >>]
  ELSE IF self.tiles[Len(self.tiles)] \notin can
  THEN [self |-> [ self EXCEPT !.tiles = popped(@) ],
        item |-> None,
        asked |-> << << self.tiles[Len(self.tiles)], FALSE >> >>]
  ELSE [self |-> [ self EXCEPT !.tiles = popped(@), !.current_index = @ + 1 ],
        item |-> Some(self.tiles[Len(self.tiles)]),
        asked |-> << << self.tiles[Len(self.tiles)], TRUE >> >>]

RiverTileSequence_next(self, can) ==
  IF self.current_index = 0
  THEN [self |-> [ self EXCEPT !.current_index = 1 ],
        item |-> Some(RIVER_TERMINATOR), asked |-> << >>]
  ELSE IF self.river_exhausted
  THEN [self |-> self, item |-> None, asked |-> << >>]
  ELSE IF self.tiles = << >>
  THEN [self |-> [ self EXCEPT !.river_exhausted = TRUE ],
        item |-> Some(RIVER_TERMINATOR), asked |-> << >>]
  ELSE IF self.tiles[Len(self.tiles)] \notin can
  THEN [self |-> [ self EXCEPT !.tiles = popped(@) ],
        item |-> None,
        asked |-> << << self.tiles[Len(self.tiles)], FALSE >> >>]
  ELSE [self |-> [ self EXCEPT !.tiles = popped(@), !.current_index = @ + 1 ],
        item |-> Some(self.tiles[Len(self.tiles)]),
        asked |-> << << self.tiles[Len(self.tiles)], TRUE >> >>]

Deck_new(include_river) ==
  { [river_tiles |-> IF include_river THEN Some(river) ELSE None,
     base_tiles |-> base,
     river_exhausted |-> ~include_river] :
      river \in RiverTileSequence_new, base \in BaseTileSequence_new }

\* the end of Deck::next: self.base_tiles.next(), after what the river asked
Deck_next_base(self, asked, can) ==
  { [self |-> [ self EXCEPT !.base_tiles = base.self ],
     item |-> base.item,
     asked |-> asked \o base.asked] :
      base \in BaseTileSequence_next(self.base_tiles, can) }

\* Deck::next once the river sequence has answered
Deck_next_river(self, river, can) ==
  IF IsSome(river.item)
  THEN { [self |-> [ self EXCEPT !.river_tiles = Some(river.self) ],
          item |-> river.item, asked |-> river.asked] }
  ELSE Deck_next_base([ self EXCEPT !.river_tiles = Some(river.self),
                                    !.river_exhausted = TRUE ],
                      river.asked, can)

\* Deck::next that asks the river sequence whatever self.river_exhausted says
Deck_next_river_always(self, can) ==
  IF IsSome(self.river_tiles)
  THEN Deck_next_river(self, RiverTileSequence_next(Unwrap(self.river_tiles), can), can)
  ELSE Deck_next_base(self, << >>, can)

Deck_next(self, can) ==
  IF ~self.river_exhausted /\ IsSome(self.river_tiles)
  THEN Deck_next_river(self, RiverTileSequence_next(Unwrap(self.river_tiles), can), can)
  ELSE Deck_next_base(self, << >>, can)

(***************************************************************************)
(* The state machine: a board driven by a caller that proposes tiles,      *)
(* keeps the running total of the score deltas and drops the errors        *)
(***************************************************************************)
VARIABLES
  placed_tiles,        \* Board.placed_tiles
  connected_regions,   \* Board.connected_regions
  region_index,        \* Board.region_index
  outcome,             \* the TilePlacementSuccess of the last successful place_tile
  score,               \* the caller's running total of the score deltas
  history,             \* the tiles placed so far, as they were proposed
  rejected,            \* None, or Some(error) while the caller holds an Err
  deck,                \* None, or Some(Deck) once the turn loop has built its deck
  drawn                \* the last call of Deck::next: its item and the answers it
                       \* got, and the tiles the deck has yielded so far

vars == << placed_tiles, connected_regions, region_index, outcome, score, history,
           rejected, deck, drawn >>

Board ==
  [placed_tiles |-> placed_tiles, connected_regions |-> connected_regions,
   region_index |-> region_index]

Players == << "A", "B" >>

\* the players take turns
CurrentPlayer == Players[(Len(history) % Len(Players)) + 1]

Origin == << 0, 0 >>

\* a meeple of player p on region index i, for every region index of the
\* entry and the one past the last
MeeplePlacements(name, players) ==
  { Some(<< i, [player_id |-> p] >>) :
      i \in 0..Len(Definition(name).regions), p \in players }

\* the tile instances a caller proposes: the first tile of a game goes to the
\* origin, later ones to any of the coordinates
Proposals(tiles, coordinates, rotations, players) ==
  UNION { { PlacedTile(Definition(name), c, r, m) :
              c \in IF placed_tiles = << >> THEN { Origin } ELSE coordinates,
              r \in rotations,
              m \in { None } \cup MeeplePlacements(name, players) }
          : name \in tiles }

ValidationErrors ==
  { "TileAlreadyAtCoordinate", "TileDoesNotContactPlacedTiles",
    "TileEdgesDoNotMatchPlacedTiles", "OtherMeepleAlreadyInConnectedRegion",
    "RiverMustBeConnected", "RiverMustNotImmediatelyTurnOnItself",
    "InvalidMeeplePlacementIndex", "MeepleCannotBePlacedInRiver" }

Init ==
  /\ placed_tiles = << >>
  /\ connected_regions = << >>
  /\ region_index = << >>
  /\ outcome = [score_delta |-> Score_new, liberated_meeple |-> << >>]
  /\ score = Score_new
  /\ history = << >>
  /\ rejected = None
  /\ deck = None
  /\ drawn = [item |-> None, asked |-> << >>, yielded |-> << >>]

\* board.place_tile(tile): Ok(TilePlacementSuccess) commits, Err leaves the
\* error with the caller
Place(tile, max_tiles) ==
  /\ rejected = None
  /\ \E st \in place_tile(Board, tile) :
       /\ placed_tiles' = st.board.placed_tiles
       /\ connected_regions' = st.board.connected_regions
       /\ region_index' = st.board.region_index
       /\ IF st.status = "Ok"
          THEN /\ Len(placed_tiles) < max_tiles
               /\ outcome' = [score_delta |-> st.score_delta,
                              liberated_meeple |-> st.liberated_meeple]
               /\ score' = add_assign(score, st.score_delta)
               /\ history' = Append(history, tile)
               /\ rejected' = None
          ELSE /\ rejected' = Some(st.status)
               /\ UNCHANGED << outcome, score, history >>
  /\ UNCHANGED << deck, drawn >>

\* the caller drops the Err and goes on; after an abort nothing goes on
Dismiss ==
  /\ rejected # None
  /\ Unwrap(rejected) \in ValidationErrors
  /\ rejected' = None
  /\ UNCHANGED << placed_tiles, connected_regions, region_index, outcome, score, history,
                  deck, drawn >>

(***************************************************************************)
(* Spec: games without meeples on a block of cells, for the structure of   *)
(* the region table and the edge index                                     *)
(***************************************************************************)
\* the number of tiles a game of Spec places
MaxTiles == 4

Coordinates == { << 0, 0 >>, << 1, 0 >>, << 0, 1 >>, << 1, 1 >>, << 2, 0 >> }

Tiles == { "CORNER_ROAD", "SIDE_CITY" }

Next ==
  \/ \E tile \in Proposals(Tiles, Coordinates, 0..3, {}) : Place(tile, MaxTiles)
  \/ Dismiss

Spec == Init /\ [][Next]_vars

(***************************************************************************)
(* SpecMeeple: short games with meeples and a river tile on a row of cells *)
(***************************************************************************)
\* the number of tiles a game of SpecMeeple places
MaxMeepleTiles == 2

MeepleCoordinates == { << 0, 0 >>, << 1, 0 >>, << 2, 0 >> }

MeepleTiles == { "SIDE_CITY", "CORNER_RIVER" }

NextMeeple ==
  \/ \E tile \in Proposals(MeepleTiles, MeepleCoordinates, 0..3, { CurrentPlayer }) :
        Place(tile, MaxMeepleTiles)
  \/ Dismiss

SpecMeeple == Init /\ [][NextMeeple]_vars

(***************************************************************************)
(* SpecCloister: a cloister at the origin and the eight cells around it,   *)
(* filled clockwise from the cell north of it                              *)
(***************************************************************************)
CloisterOrder ==
  << << 0, 0 >>, << 0, -1 >>, << 1, -1 >>, << 1, 0 >>, << 1, 1 >>, << 0, 1 >>,
     << -1, 1 >>, << -1, 0 >>, << -1, -1 >> >>

CloisterTiles == { "CLOISTER_IN_FIELD" }

\* the cell the caller fills next, and the one filled last
CloisterCells ==
  { CloisterOrder[i] : i \in { Len(placed_tiles), Len(placed_tiles) + 1 }
                            \cap DOMAIN CloisterOrder }

NextCloister ==
  \/ \E tile \in Proposals(CloisterTiles, CloisterCells, { 0 }, { CurrentPlayer }) :
        Place(tile, Len(CloisterOrder))
  \/ Dismiss

SpecCloister == Init /\ [][NextCloister]_vars

(***************************************************************************)
(* SpecCity: games without meeples on a block of cells, with a city tile   *)
(* that carries a pennant                                                  *)
(***************************************************************************)
\* the number of tiles a game of SpecCity places
MaxCityTiles == 3

CityCoordinates == { << 0, 0 >>, << 1, 0 >>, << 0, 1 >>, << 1, 1 >> }

CityTiles == { "SIDE_CITY", "CORNER_CITY_WITH_PENNANT" }

NextCity ==
  \/ \E tile \in Proposals(CityTiles, CityCoordinates, 0..3, {}) :
        Place(tile, MaxCityTiles)
  \/ Dismiss

SpecCity == Init /\ [][NextCity]_vars

(***************************************************************************)
(* SpecRing: two city tiles face to face and the four road corners around  *)
(* them, laid in a fixed order with the meeples left to the players: a     *)
(* road and a field that ring a two-tile city                              *)
(***************************************************************************)
\* the moves of the game: tile, coordinate and rotations
RingMoves ==
  << << "STRAIGHT_ROAD_WITH_SIDE_CITY", << 0, 0 >>, 2 >>,
     << "STRAIGHT_ROAD_WITH_SIDE_CITY", << 0, 1 >>, 0 >>,
     << "CORNER_ROAD", << 1, 1 >>, 2 >>,
     << "CORNER_ROAD", << 1, 0 >>, 1 >>,
     << "CORNER_ROAD", << -1, 0 >>, 0 >>,
     << "CORNER_ROAD", << -1, 1 >>, 3 >> >>

\* the move the caller makes next, and the one made last
RingTurns ==
  { Len(placed_tiles), Len(placed_tiles) + 1 } \cap DOMAIN RingMoves

NextRing ==
  \/ \E k \in RingTurns :
       \E tile \in Proposals({ RingMoves[k][1] }, { RingMoves[k][2] },
                             { RingMoves[k][3] }, { CurrentPlayer }) :
         Place(tile, Len(RingMoves))
  \/ Dismiss

SpecRing == Init /\ [][NextRing]_vars

(***************************************************************************)
(* SpecRiver: short games with the river tiles and meeples on a row of     *)
(* cells and the cell below its middle                                     *)
(***************************************************************************)
\* the number of tiles a game of SpecRiver places
MaxRiverTiles == 2

RiverCoordinates == { << -1, 0 >>, << 0, 0 >>, << 1, 0 >>, << 0, 1 >> }

RiverTiles == { "RIVER_TERMINATOR", "STRAIGHT_RIVER", "CORNER_RIVER" }

NextRiver ==
  \/ \E tile \in Proposals(RiverTiles, RiverCoordinates, 0..3, { CurrentPlayer }) :
        Place(tile, MaxRiverTiles)
  \/ Dismiss

SpecRiver == Init /\ [][NextRiver]_vars

(***************************************************************************)
(* SpecFirst: the first tile of a game, any entry of the catalog at any of *)
(* a few coordinates and in any rotation, with or without a meeple         *)
(***************************************************************************)
FirstCoordinates == { << 0, 0 >>, << -1, 2 >>, << 3, -2 >> }

FirstProposals ==
  UNION { { PlacedTile(Definition(name), c, r, m) :
              c \in FirstCoordinates,
              r \in 0..3,
              m \in { None } \cup MeeplePlacements(name, { CurrentPlayer }) }
          : name \in TileNames }

NextFirst ==
  \/ placed_tiles = << >> /\ \E tile \in FirstProposals : Place(tile, 1)
  \/ Dismiss

SpecFirst == Init /\ [][NextFirst]_vars

(***************************************************************************)
(* SpecHints: the turn loop of main.rs on river tiles.  The player asks    *)
(* the board for the move hints of the tile drawn and places one of them   *)
(* with a meeple of their own where the hint names a region; an abort of   *)
(* get_move_hints ends the game.                                           *)
(***************************************************************************)
MaxHintTiles == 2

HintTiles == { "RIVER_TERMINATOR", "STRAIGHT_RIVER" }

\* bot.select_hint(board, player, tile) and board.place_tile(tile).unwrap()
Hinted(name, max_tiles) ==
  /\ rejected = None
  /\ IF get_move_hints(Board, Definition(name), TRUE).status = "panic"
     THEN /\ rejected' = Some("panic")
          /\ UNCHANGED << placed_tiles, connected_regions, region_index,
                          outcome, score, history, deck, drawn >>
     ELSE \E hint \in get_move_hints(Board, Definition(name), TRUE).hints :
            Place(hinted_tile(hint, [player_id |-> CurrentPlayer]), max_tiles)

NextHints == \E name \in HintTiles : Hinted(name, MaxHintTiles)

SpecHints == Init /\ [][NextHints]_vars

(***************************************************************************)
(* SpecBlock: the first four tiles of the ring, a two by two block whose   *)
(* last tile joins regions of two neighbours at once, with the meeples     *)
(* left to the players                                                     *)
(***************************************************************************)
BlockMoves == SubSeq(RingMoves, 1, 4)

BlockTurns == { Len(placed_tiles), Len(placed_tiles) + 1 } \cap DOMAIN BlockMoves

NextBlock ==
  \/ \E k \in BlockTurns :
       \E tile \in Proposals({ BlockMoves[k][1] }, { BlockMoves[k][2] },
                             { BlockMoves[k][3] }, { CurrentPlayer }) :
         Place(tile, Len(BlockMoves))
  \/ Dismiss

SpecBlock == Init /\ [][NextBlock]_vars

(***************************************************************************)
(* SpecOrder: a fixed set of tile instances without meeples, the first     *)
(* five of the ring, placed in any order the board accepts                 *)
(***************************************************************************)
MaxOrderTiles == 4

OrderMoves == SubSeq(RingMoves, 1, 5)

OrderTiles ==
  { PlacedTile(Definition(OrderMoves[k][1]), OrderMoves[k][2], OrderMoves[k][3], None) :
      k \in DOMAIN OrderMoves }

NextOrder ==
  \/ \E tile \in OrderTiles : Place(tile, MaxOrderTiles)
  \/ Dismiss

SpecOrder == Init /\ [][NextOrder]_vars

(***************************************************************************)
(* SpecDeck: a deck built with or without the river and drawn from until   *)
(* it is empty, with a closure that can answer anything of any entry, the  *)
(* same for an entry all through one draw                                  *)
(***************************************************************************)
\* Deck::new(include_river, rng, tile_can_be_placed)
DeckNew ==
  /\ deck = None
  /\ \E include_river \in BOOLEAN :
       \E new \in Deck_new(include_river) : deck' = Some(new)
  /\ UNCHANGED << placed_tiles, connected_regions, region_index, outcome, score,
                  history, rejected, drawn >>

\* deck.next()
DeckNext ==
  /\ deck # None
  /\ \E can \in SUBSET { Definition(name) : name \in DeckCatalog } :
       \E next \in Deck_next(Unwrap(deck), can) :
         /\ deck' = Some(next.self)
         /\ drawn' = [item |-> next.item, asked |-> next.asked,
                      yielded |-> drawn.yielded \o next.item]
  /\ UNCHANGED << placed_tiles, connected_regions, region_index, outcome, score,
                  history, rejected >>

NextDeck == DeckNew \/ DeckNext

SpecDeck == Init /\ [][NextDeck]_vars

(***************************************************************************)
(* SpecRiverSequence: a river sequence on its own, as the tests of deck.rs *)
(* build it, called again and again; `deck` holds the sequence             *)
(***************************************************************************)
\* RiverTileSequence::new(rng, tile_can_be_placed)
RiverNew ==
  /\ deck = None
  /\ \E new \in RiverTileSequence_new : deck' = Some(new)
  /\ UNCHANGED << placed_tiles, connected_regions, region_index, outcome, score,
                  history, rejected, drawn >>

\* river.next()
RiverNext ==
  /\ deck # None
  /\ \E can \in SUBSET { Definition(name) : name \in DeckCatalog } :
       /\ deck' = Some(RiverTileSequence_next(Unwrap(deck), can).self)
       /\ drawn' = [item |-> RiverTileSequence_next(Unwrap(deck), can).item,
                    asked |-> RiverTileSequence_next(Unwrap(deck), can).asked,
                    yielded |-> drawn.yielded
                                  \o RiverTileSequence_next(Unwrap(deck), can).item]
  /\ UNCHANGED << placed_tiles, connected_regions, region_index, outcome, score,
                  history, rejected >>

NextRiverSequence == RiverNew \/ RiverNext

SpecRiverSequence == Init /\ [][NextRiverSequence]_vars

(***************************************************************************)
(* SpecJoin: two city sides face to face, a cloister with its road below   *)
(* one of them and a road corner in the cell that is left, laid in a       *)
(* fixed order with the meeples left to the players: the two fields of     *)
(* the corner both touch the field around the cloister, and the larger     *)
(* one also touches the field of the first tile                            *)
(***************************************************************************)
JoinMoves ==
  << << "SIDE_CITY", << 0, 0 >>, 3 >>,
     << "SIDE_CITY", << 1, 0 >>, 1 >>,
     << "CLOISTER_WITH_ROAD", << 1, 1 >>, 3 >>,
     << "CORNER_ROAD", << 0, 1 >>, 0 >> >>

JoinTurns == { Len(placed_tiles), Len(placed_tiles) + 1 } \cap DOMAIN JoinMoves

NextJoin ==
  \/ \E k \in JoinTurns :
       \E tile \in Proposals({ JoinMoves[k][1] }, { JoinMoves[k][2] },
                             { JoinMoves[k][3] }, { CurrentPlayer }) :
         Place(tile, Len(JoinMoves))
  \/ Dismiss

SpecJoin == Init /\ [][NextJoin]_vars

(***************************************************************************)
(* SpecCourt: the eight cells around a free cell, filled clockwise from    *)
(* the origin, and the cell in their middle filled last                    *)
(***************************************************************************)
CourtOrder ==
  << << 0, 0 >>, << 1, 0 >>, << 2, 0 >>, << 2, 1 >>, << 2, 2 >>, << 1, 2 >>,
     << 0, 2 >>, << 0, 1 >>, << 1, 1 >> >>

\* the cell the caller fills next, and the one filled last
CourtCells ==
  { CourtOrder[i] : i \in { Len(placed_tiles), Len(placed_tiles) + 1 }
                         \cap DOMAIN CourtOrder }

NextCourt ==
  \/ \E tile \in Proposals(CloisterTiles, CourtCells, { 0 }, { CurrentPlayer }) :
        Place(tile, Len(CourtOrder))
  \/ Dismiss

SpecCourt == Init /\ [][NextCourt]_vars

(***************************************************************************)
(* Properties                                                              *)
(***************************************************************************)
\* the board the step leaves
BoardNext ==
  [ placed_tiles |-> placed_tiles', connected_regions |-> connected_regions',
    region_index |-> region_index' ]

\* the step is a placement that succeeded, and the tile it placed
PlacedNow == Len(history') = Len(history) + 1

ProposalNow == history'[Len(history')]

\* the (coordinate, region index) pairs of the placed tiles
Members ==
  UNION { { << placed_tiles[k].coordinate, i - 1 >> :
              i \in DOMAIN Regions(placed_tiles[k]) } : k \in DOMAIN placed_tiles }

\* the sub-edges of a member, turned by its tile's rotation
MemberEdges(m) ==
  LET t == Unwrap(get_tile_at_coordinate(Board, m[1]))
      edges == Regions(t)[m[2] + 1].edges
  IN  { PlacedTileEdge(m[1], rotate(edges[k], t.rotations)) : k \in DOMAIN edges }

\* the member that owns a sub-edge of a placed tile
MemberAt(e) ==
  LET t == Unwrap(get_tile_at_coordinate(Board, e.coordinate))
      rs == Regions(t)
  IN  << e.coordinate,
         (CHOOSE j \in DOMAIN rs :
            \E k \in DOMAIN rs[j].edges :
              rotate(rs[j].edges[k], t.rotations) = e.global_direction) - 1 >>

\* the members that a member meets in a sub-edge and the one facing it
Linked(m) ==
  { MemberAt(opposing_tile_edge(e)) :
      e \in { x \in MemberEdges(m) :
                opposing_tile_edge(x).coordinate \in occupied(Board) } }

RegionMembers(region) ==
  { << r.tile_position, r.region_index >> : r \in Range(region.tile_regions) }

\* the kind a placed tile shows at a global direction, from the catalog
KindAt(t, d) ==
  LET rs == Regions(t)
      i == CHOOSE j \in DOMAIN rs :
             \E k \in DOMAIN rs[j].edges : rotate(rs[j].edges[k], t.rotations) = d
  IN  rs[i].region_type

\* the tile agrees in kind, sub-edge by sub-edge, with every neighbour
Fits(board, t) ==
  \A d \in CardinalDirection :
    LET n == get_tile_at_coordinate(board, adjacent_in_direction(t.coordinate, d))
    IN  IsSome(n) => KindAt(t, d) = KindAt(Unwrap(n), tile_opposite(d))

\* C1: a placement that returns a validation error leaves the tile table
\* (and the meeples on it), the region table and the edge index as they were
C1_RejectionLeavesBoard ==
  [][ (rejected' # None /\ Unwrap(rejected') \in ValidationErrors)
        => UNCHANGED << placed_tiles, connected_regions, region_index >> ]_vars

C1_Witness ==
  /\ rejected # None
  /\ Unwrap(rejected) \in ValidationErrors
  /\ Len(placed_tiles) >= 1

\* C2: every (coordinate, region index) pair of a placed tile is a member of
\* exactly one connected region, once, and the members of a region are the
\* pairs a chain of facing sub-edges joins
C2_RegionsAreClasses ==
  LET linked == [ m \in Members |-> Linked(m) ]
      RECURSIVE Closure(_)
      Closure(S) ==
        LET T == S \cup UNION { linked[s] : s \in S }
        IN  IF T = S THEN S ELSE Closure(T)
  IN  /\ \A m \in Members :
           \E id \in DOMAIN connected_regions :
             /\ m \in RegionMembers(connected_regions[id])
             /\ \A other \in DOMAIN connected_regions :
                  m \in RegionMembers(connected_regions[other]) => other = id
             /\ LET members == connected_regions[id].tile_regions
                IN  Cardinality({ k \in DOMAIN members :
                      << members[k].tile_position, members[k].region_index >> = m }) = 1
      /\ \A id \in DOMAIN connected_regions :
           LET members == RegionMembers(connected_regions[id])
           IN  /\ members # {}
               /\ members \subseteq Members
               /\ members = Closure({ CHOOSE m \in members : TRUE })

C2_Witness ==
  \E id \in DOMAIN connected_regions :
    /\ Cardinality(RegionMembers(connected_regions[id])) >= 4
    /\ is_closed(connected_regions[id])

\* C3: every edge that is a key of the edge map of a region of the table is
\* a key of the edge index, bound to the ID of that region
C3_IndexCoversEdgeMaps ==
  \A id \in DOMAIN connected_regions :
    \A e \in DOMAIN connected_regions[id].connected_edges :
      e \in DOMAIN region_index /\ region_index[e] = id

C3_Witness ==
  \E id \in DOMAIN connected_regions :
    \E e1, e2 \in DOMAIN connected_regions[id].connected_edges :
      /\ e1.coordinate # e2.coordinate
      /\ region_index[e1] = id
      /\ region_index[e2] = id

\* C4: an edge e that an edge map binds to Some(e') faces e', and the edge
\* index binds both e and e' to the ID of the region
C4_Original ==
  \A id \in DOMAIN connected_regions :
    LET edges == connected_regions[id].connected_edges
    IN  \A e \in DOMAIN edges :
          IsSome(edges[e]) =>
            /\ Unwrap(edges[e]) = opposing_tile_edge(e)
            /\ e \in DOMAIN region_index
            /\ Unwrap(edges[e]) \in DOMAIN region_index
            /\ region_index[e] = id
            /\ region_index[Unwrap(edges[e])] = id

\* C5: every member of a connected region is of the region's kind, and no
\* merge of a placement fails with RegionTypeMismatch
C5_MembersShareKind ==
  /\ rejected # Some("panic: should merge")
  /\ \A id \in DOMAIN connected_regions :
       \A r \in Range(connected_regions[id].tile_regions) :
         /\ r.region.region_type = connected_regions[id].region_type
         /\ Regions(Unwrap(get_tile_at_coordinate(Board, r.tile_position)))
              [r.region_index + 1].region_type = connected_regions[id].region_type

C5_Witness ==
  \E id \in DOMAIN connected_regions :
    /\ Cardinality(RegionMembers(connected_regions[id])) >= 3
    /\ connected_regions[id].region_type = "Road"

\* C6: tiles on 4-adjacent coordinates show the same kind at every sub-edge
\* and the one facing it, and a proposal for a free coordinate that would not
\* is rejected with TileEdgesDoNotMatchPlacedTiles (the proposals are tried on
\* every board a placement has left)
C6_SidesAgree ==
  /\ \A k \in DOMAIN placed_tiles : Fits(Board, placed_tiles[k])
  /\ (placed_tiles # << >> /\ rejected = None) =>
       \A tile \in Proposals(Tiles, Coordinates, 0..3, {}) :
         (tile.coordinate \notin occupied(Board) /\ ~Fits(Board, tile))
           => validate_tile_placement(Board, tile) = "TileEdgesDoNotMatchPlacedTiles"

C6_Witness ==
  /\ rejected = Some("TileEdgesDoNotMatchPlacedTiles")
  /\ Len(placed_tiles) >= 2

\* the tile table as it is once the proposal is in it and before a meeple
\* of the placement is returned
BoardWithProposal ==
  [ placed_tiles |-> Append(placed_tiles, ProposalNow),
    connected_regions |-> connected_regions', region_index |-> region_index' ]

\* the regions the placement builds
BuiltNow == DOMAIN connected_regions' \ DOMAIN connected_regions

\* C7: a placement that closes a City or Road region that holds a meeple
\* credits, in its score delta, every majority owner with the score of the
\* region as closed
C7_Original ==
  [][ PlacedNow =>
        \A id \in BuiltNow :
          LET region == connected_regions'[id]
              owners == majority_meeple_player_ids(region, BoardWithProposal)
          IN  (region.region_type \in { "City", "Road" } /\ is_closed(region))
                => \A p \in owners :
                     Points(outcome'.score_delta, p)
                       >= region_score(region, BoardWithProposal) ]_vars

\* C8: no closed City or Road region of the table holds a meeple on a
\* member
C8_Original ==
  \A id \in DOMAIN connected_regions :
    LET region == connected_regions[id]
    IN  (region.region_type \in { "City", "Road" } /\ is_closed(region))
          => residents(region, Board) = << >>

\* C9: the placement that fills the last free cell of the eight around a
\* tile with a meeple on its Cloister returns the meeple and credits its
\* owner with 9 points
C9_Original ==
  [][ PlacedNow =>
        \A k \in DOMAIN placed_tiles :
          LET t == placed_tiles[k]
              around == Range(surrounding_coordinates(t.coordinate))
              meeple == Unwrap(t.meeple)[2]
          IN  ( /\ has_occupied_cloister(t)
                /\ around \subseteq occupied(BoardNext)
                /\ ~(around \subseteq occupied(Board)) )
                => /\ meeple \in Range(outcome'.liberated_meeple)
                   /\ Points(outcome'.score_delta, meeple.player_id) = 9 ]_vars

\* C10: for every owner, the deltas of the placements and the end-of-game
\* score of the board add up to the score of the board with every meeple
\* still where it was placed
C10_Original ==
  \A p \in Range(Players) :
    Points(score, p) + Points(calculate_board_score(Board), p)
      = Points(calculate_board_score([ Board EXCEPT !.placed_tiles = history ]), p)

\* closed, as the edge map tells it: there is an edge and every edge is matched
Closed(region) ==
  /\ DOMAIN region.connected_edges # {}
  /\ \A e \in DOMAIN region.connected_edges : region.connected_edges[e] # None

\* the members of a region whose catalog region carries a pennant
PennantMembers(region) ==
  { m \in RegionMembers(region) :
      Regions(Unwrap(get_tile_at_coordinate(Board, m[1])))[m[2] + 1].pennant }

\* C11: the score of a City region of the table is 1 for each member and 1
\* more for each member with a pennant, and twice that when the region is
\* closed
C11_CityScore ==
  \A id \in DOMAIN connected_regions :
    LET region == connected_regions[id]
        base == Cardinality(RegionMembers(region)) + Cardinality(PennantMembers(region))
    IN  region.region_type = "City"
          => region_score(region, Board) = IF Closed(region) THEN 2 * base ELSE base

C11_Witness ==
  \E id \in DOMAIN connected_regions :
    /\ connected_regions[id].region_type = "City"
    /\ Closed(connected_regions[id])
    /\ Cardinality(RegionMembers(connected_regions[id])) = 3
    /\ PennantMembers(connected_regions[id]) # {}
    /\ region_score(connected_regions[id], Board) = 8

\* C12: the score of a Road region of the table is the number of its
\* members, and twice that number when the region is closed
C12_Original ==
  \A id \in DOMAIN connected_regions :
    LET region == connected_regions[id]
        base == Cardinality(RegionMembers(region))
    IN  region.region_type = "Road"
          => region_score(region, Board) = IF Closed(region) THEN 2 * base ELSE base

\* the catalog sub-edges of a member, as the entry lists them
CatalogEdges(m) ==
  Range(Regions(Unwrap(get_tile_at_coordinate(Board, m[1])))[m[2] + 1].edges)

\* two members of one tile that sit at neighbouring perimeter positions
Neighbouring(m, n) ==
  /\ m[1] = n[1]
  /\ \E d \in CatalogEdges(m) :
       adjacent(d)[1] \in CatalogEdges(n) \/ adjacent(d)[2] \in CatalogEdges(n)

\* the City regions of the table with a member next to a member of the region
AdjacentCities(region) ==
  { id \in DOMAIN connected_regions :
      /\ connected_regions[id].region_type = "City"
      /\ \E m \in RegionMembers(region), n \in RegionMembers(connected_regions[id]) :
           Neighbouring(m, n) }

\* C13: the score of a Field region of the table is 3 times the number of
\* closed City regions of the table that are adjacent to it
C13_Original ==
  \A id \in DOMAIN connected_regions :
    LET region == connected_regions[id]
    IN  region.region_type = "Field"
          => region_score(region, Board)
               = 3 * Cardinality({ c \in AdjacentCities(region) :
                                     Closed(connected_regions[c]) })

\* the player has a meeple on a City, Road or Cloister of a placed tile or of
\* the proposal
OffField(p) ==
  \E t \in Range(placed_tiles) \cup { ProposalNow } :
    /\ IsSome(t.meeple)
    /\ Unwrap(t.meeple)[2].player_id = p
    /\ Regions(t)[Unwrap(t.meeple)[1] + 1].region_type # "Field"

MeeplesOn(region, p, tiles) ==
  Cardinality({ k \in DOMAIN tiles :
    /\ IsSome(tiles[k].meeple)
    /\ Unwrap(tiles[k].meeple)[2].player_id = p
    /\ << tiles[k].coordinate, Unwrap(tiles[k].meeple)[1] >> \in RegionMembers(region) })

\* the owners with the most meeples on the region, none without a meeple
TopOwners(region, tiles) ==
  { p \in Range(Players) :
      /\ MeeplesOn(region, p, tiles) > 0
      /\ \A q \in Range(Players) :
           MeeplesOn(region, q, tiles) <= MeeplesOn(region, p, tiles) }

\* what the regions of the given IDs are worth to a player: the full score
\* of each region the player is a top owner of, once
RECURSIVE Credit(_, _, _)
Credit(ids, p, board) ==
  IF ids = {} THEN 0
  ELSE LET id == CHOOSE x \in ids : TRUE
       IN  (IF p \in TopOwners(board.connected_regions[id], board.placed_tiles)
            THEN region_score(board.connected_regions[id], board) ELSE 0)
             + Credit(ids \ { id }, p, board)

\* the City and Road regions the placement closes
ClosedNow ==
  { id \in BuiltNow :
      /\ connected_regions'[id].region_type \in { "City", "Road" }
      /\ Closed(connected_regions'[id]) }

\* C15: a placement that completes no cloister earns every player the full
\* score of each region it closes on which the player is a top owner, and
\* nothing else; the end-of-game score of the board it leaves earns every
\* player the full score of each region on which the player is a top owner
C15_Original ==
  [][ (PlacedNow /\ \A k \in DOMAIN placed_tiles :
                      has_occupied_cloister(placed_tiles[k])
                        => placed_tiles'[k].meeple # None)
        => \A p \in Range(Players) :
             /\ Points(outcome'.score_delta, p) = Credit(ClosedNow, p, BoardWithProposal)
             /\ Points(calculate_board_score(BoardNext), p)
                  = Credit(DOMAIN connected_regions', p, BoardNext) ]_vars

\* C16: no Water region of the table is closed
C16_Original ==
  \A id \in DOMAIN connected_regions :
    connected_regions[id].region_type = "Water" => ~Closed(connected_regions[id])

\* C17: is_closed tells of every region of the table whether it has an edge
\* and every edge of its edge map is matched; a region with an empty edge map
\* is not closed
C17_Original ==
  \A id \in DOMAIN connected_regions :
    is_closed(connected_regions[id]) <=> Closed(connected_regions[id])

\* the errors of the checks that come before the meeple rule
EarlierErrors ==
  ValidationErrors \ { "OtherMeepleAlreadyInConnectedRegion" }

\* a region of the table that would merge with the region the proposal's
\* meeple stands on, found through the edge facing one of that region's
\* sub-edges, has a meeple on one of its members
JoinsOccupied(tile) ==
  \E d \in Range(Regions(tile)[Unwrap(tile.meeple)[1] + 1].edges) :
    LET facing == opposing_tile_edge(
                    PlacedTileEdge(tile.coordinate, rotate(d, tile.rotations)))
    IN  /\ facing \in DOMAIN region_index
        /\ region_index[facing] \in DOMAIN connected_regions
        /\ \E p \in Range(Players) :
             MeeplesOn(connected_regions[region_index[facing]], p, placed_tiles) > 0

\* the meeple rule on a proposal whose validation gives v
MeepleRule(tile, v) ==
  /\ (IsSome(tile.meeple) /\ v \notin EarlierErrors /\ JoinsOccupied(tile))
       => v = "OtherMeepleAlreadyInConnectedRegion"
  /\ tile.meeple = None => v # "OtherMeepleAlreadyInConnectedRegion"

\* C18: on a non-empty board a proposal with a meeple that passes the earlier
\* checks is rejected with OtherMeepleAlreadyInConnectedRegion when a region
\* that would merge with the meeple's region holds a meeple, and a proposal
\* without a meeple never is (the proposals are tried on every board a
\* placement has left)
C18_MeepleInJoinedRegion ==
  (placed_tiles # << >> /\ rejected = None) =>
    \A tile \in Proposals(MeepleTiles, MeepleCoordinates, 0..3, Range(Players)) :
      MeepleRule(tile, validate_tile_placement(Board, tile))

C18_Witness ==
  /\ rejected = Some("OtherMeepleAlreadyInConnectedRegion")
  /\ placed_tiles # << >>
  /\ \E k \in DOMAIN placed_tiles : IsSome(placed_tiles[k].meeple)

\* the directions the Water of a placed tile leaves the tile in
RiverEnds(t) ==
  UNION { { rotate(d, t.rotations) : d \in Range(Regions(t)[i].edges) } :
            i \in { j \in DOMAIN Regions(t) : Regions(t)[j].region_type = "Water" } }

\* the river of the proposal turns back on the river of the tile placed
\* last: with d the direction from the proposal to that tile, an end of the
\* proposal's river other than d points the way an end of that tile's river
\* other than the one facing the proposal does
DoublesBack(tile, prev) ==
  \E d \in Range(PRIMARY_CARDINAL_DIRECTIONS) :
    /\ adjacent_in_direction(tile.coordinate, d) = prev.coordinate
    /\ (RiverEnds(tile) \ { d }) \cap (RiverEnds(prev) \ { compass_opposite(d) }) # {}

\* the errors of the checks that come before the turn of the river is looked at
ErrorsBeforeTurn ==
  { "InvalidMeeplePlacementIndex", "MeepleCannotBePlacedInRiver",
    "TileAlreadyAtCoordinate", "TileDoesNotContactPlacedTiles",
    "TileEdgesDoNotMatchPlacedTiles", "RiverMustBeConnected" }

\* the turn rule on a proposal whose validation gives v
TurnRule(tile, v) ==
  /\ (tile.tile # RIVER_TERMINATOR /\ RiverEnds(tile) # {} /\ v \notin ErrorsBeforeTurn)
       => /\ v \in ValidationErrors \cup { "Ok" }
          /\ v = "RiverMustNotImmediatelyTurnOnItself"
               <=> DoublesBack(tile, placed_tiles[Len(placed_tiles)])
  /\ tile.tile = RIVER_TERMINATOR => v # "RiverMustNotImmediatelyTurnOnItself"

PairsWater(tile) ==
  \E d \in CardinalDirection :
    LET n == get_tile_at_coordinate(Board, adjacent_in_direction(tile.coordinate, d))
    IN  /\ KindAt(tile, d) = "Water"
        /\ IsSome(n)
        /\ KindAt(Unwrap(n), tile_opposite(d)) = "Water"

\* the errors of the meeple, occupancy, contact and edge-match checks
ErrorsBeforeRiver ==
  { "InvalidMeeplePlacementIndex", "MeepleCannotBePlacedInRiver",
    "TileAlreadyAtCoordinate", "TileDoesNotContactPlacedTiles",
    "TileEdgesDoNotMatchPlacedTiles" }

\* the connection rule on a proposal whose validation gives v
ConnectionRule(tile, v) ==
  (RiverEnds(tile) # {} /\ v \notin ErrorsBeforeRiver)
    => (v = "RiverMustBeConnected" <=> ~PairsWater(tile))

\* C20: on a non-empty board a proposal that shows Water and passes the
\* meeple, occupancy, contact and edge-match checks is rejected with
\* RiverMustBeConnected exactly when none of its Water meets Water of a
\* neighbour (the proposals are tried on every board a placement has left)
C20_RiverConnected ==
  (placed_tiles # << >> /\ rejected = None) =>
    \A tile \in Proposals(RiverTiles, RiverCoordinates, 0..3, Range(Players)) :
      ConnectionRule(tile, validate_tile_placement(Board, tile))

C20_Witness ==
  /\ rejected = Some("RiverMustBeConnected")
  /\ Len(placed_tiles) >= 2

\* the proposal carries no meeple, or a meeple on a region of the tile that
\* is not Water
ValidMeeple(tile) ==
  \/ tile.meeple = None
  \/ /\ Unwrap(tile.meeple)[1] + 1 \in DOMAIN Regions(tile)
     /\ Regions(tile)[Unwrap(tile.meeple)[1] + 1].region_type # "Water"

\* the tile table holds, entry by entry, the tile, coordinate and rotations
\* of the placements as they were made
TableFollowsHistory ==
  /\ Len(placed_tiles) = Len(history)
  /\ \A k \in DOMAIN placed_tiles :
       /\ placed_tiles[k].tile = history[k].tile
       /\ placed_tiles[k].coordinate = history[k].coordinate
       /\ placed_tiles[k].rotations = history[k].rotations

\* C21: on a non-empty board a proposal with a valid meeple choice for a
\* coordinate that holds a tile is rejected with TileAlreadyAtCoordinate
\* (the proposals are tried on every board a placement has left); no two
\* entries of the tile table share a coordinate and every entry is the tile
\* that was placed there first
C21_OccupiedRejected ==
  /\ \A i, j \in DOMAIN placed_tiles :
       placed_tiles[i].coordinate = placed_tiles[j].coordinate => i = j
  /\ TableFollowsHistory
  /\ (placed_tiles # << >> /\ rejected = None) =>
       \A tile \in Proposals(MeepleTiles, MeepleCoordinates, 0..3, Range(Players)) :
         (tile.coordinate \in occupied(Board) /\ ValidMeeple(tile))
           => validate_tile_placement(Board, tile) = "TileAlreadyAtCoordinate"

C21_Witness ==
  /\ rejected = Some("TileAlreadyAtCoordinate")
  /\ Len(placed_tiles) >= 2

\* the four cells that share a side with c
PrimaryNeighbours(c) ==
  { << c[1], c[2] - 1 >>, << c[1] + 1, c[2] >>, << c[1], c[2] + 1 >>, << c[1] - 1, c[2] >> }

\* the cells of `cells` that can be walked to from `seen` through shared sides
RECURSIVE Walk(_, _)
Walk(seen, cells) ==
  IF \E c \in cells \ seen : PrimaryNeighbours(c) \cap seen # {}
  THEN Walk(seen \cup { c \in cells \ seen : PrimaryNeighbours(c) \cap seen # {} }, cells)
  ELSE seen

FourConnected(cells) ==
  cells = {} \/ Walk({ CHOOSE c \in cells : TRUE }, cells) = cells

\* C22: on a non-empty board a proposal for a free coordinate with no tile on
\* any of its four sides is rejected with TileDoesNotContactPlacedTiles (the
\* proposals are tried on every board a placement has left), and the occupied
\* coordinates are 4-connected
C22_NoContactRejected ==
  /\ FourConnected(occupied(Board))
  /\ (placed_tiles # << >> /\ rejected = None) =>
       \A tile \in Proposals(CityTiles, CityCoordinates, 0..3, {}) :
         (tile.coordinate \notin occupied(Board)
            /\ PrimaryNeighbours(tile.coordinate) \cap occupied(Board) = {})
           => validate_tile_placement(Board, tile) = "TileDoesNotContactPlacedTiles"

C22_Witness ==
  /\ rejected = Some("TileDoesNotContactPlacedTiles")
  /\ placed_tiles # << >>

\* what the two checks of the meeple index say of a proposal
MeepleIndexVerdict(tile) ==
  IF tile.meeple = None THEN "Ok"
  ELSE IF Unwrap(tile.meeple)[1] + 1 \notin DOMAIN Regions(tile)
       THEN "InvalidMeeplePlacementIndex"
       ELSE IF Regions(tile)[Unwrap(tile.meeple)[1] + 1].region_type = "Water"
            THEN "MeepleCannotBePlacedInRiver"
            ELSE "Ok"

\* C23: on the empty board validate_tile_placement answers a proposal for any
\* catalog tile, coordinate and rotation with what the meeple index checks
\* say and nothing else, so Ok when there is no meeple or the meeple is on a
\* region of the tile that is not Water; a board of one tile holds such a
\* proposal
C23_FirstTileAccepted ==
  /\ (placed_tiles = << >> /\ rejected = None) =>
       \A tile \in FirstProposals :
         /\ validate_tile_placement(Board, tile) = MeepleIndexVerdict(tile)
         /\ ValidMeeple(tile) => validate_tile_placement(Board, tile) = "Ok"
  /\ placed_tiles # << >> => ValidMeeple(placed_tiles[1])
  /\ rejected # None => Unwrap(rejected) \in { "InvalidMeeplePlacementIndex", "MeepleCannotBePlacedInRiver" }

C23_Witness ==
  /\ Len(placed_tiles) = 1
  /\ placed_tiles[1].tile.name = "CORNER_RIVER"
  /\ placed_tiles[1].coordinate = << 3, -2 >>
  /\ placed_tiles[1].rotations = 3
  /\ placed_tiles[1].meeple # None

\* C24: on every board, the empty one included, a proposal whose meeple index
\* is outside the region list of the tile is rejected with
\* InvalidMeeplePlacementIndex and one whose meeple index names a Water region
\* with MeepleCannotBePlacedInRiver, whatever else is wrong with the proposal
\* (the proposals are tried on every board a placement has left); no tile was
\* placed with, and no tile of the table carries, a meeple on a Water region
\* or on a region the tile does not have
C24_MeepleIndexFirst ==
  /\ rejected = None =>
       \A tile \in Proposals(MeepleTiles, MeepleCoordinates, 0..3, Range(Players)) :
         ~ValidMeeple(tile) =>
           /\ validate_tile_placement(Board, tile) = MeepleIndexVerdict(tile)
           /\ validate_tile_placement(Board, tile)
                \in { "InvalidMeeplePlacementIndex", "MeepleCannotBePlacedInRiver" }
  /\ \A k \in DOMAIN placed_tiles : ValidMeeple(placed_tiles[k])
  /\ \A k \in DOMAIN history : ValidMeeple(history[k])

C24_Witness ==
  /\ rejected = Some("MeepleCannotBePlacedInRiver")
  /\ \E k \in DOMAIN placed_tiles : placed_tiles[k].meeple # None

\* the free cells with a tile on one of their four sides, or the origin when
\* there is no tile
HintCoordinates(board) ==
  IF board.placed_tiles = << >> THEN { Origin }
  ELSE { c \in (-4..4) \X (-4..4) :
           /\ c \notin occupied(board)
           /\ PrimaryNeighbours(c) \cap occupied(board) # {} }

\* r is the smallest of the rotations that give the entry the twelve kinds
\* rotation r gives it
SmallestOfItsKind(tile, r) ==
  \A q \in 0..3 :
    list_oriented_region_types(tile, q) = list_oriented_region_types(tile, r) => r <= q

\* the moves the rule of the move hints names
HintsByRule(board, tile, include) ==
  { hint \in { MoveHint(tile, c, r, m) :
                 c \in HintCoordinates(board),
                 r \in { r \in 0..3 : SmallestOfItsKind(tile, r) },
                 m \in { None } \cup IF include
                                     THEN { Some(i - 1) : i \in DOMAIN tile.regions }
                                     ELSE {} } :
      validate_tile_placement(board, hinted_tile(hint, Meeple_dummy)) = "Ok" }

HintRule(board, tile, include, result) ==
  /\ result.status = "Ok"
  /\ result.hints = HintsByRule(board, tile, include)
  /\ \A hint \in result.hints :
       \A st \in place_tile(board, hinted_tile(hint, [player_id |-> CurrentPlayer])) :
         st.status = "Ok"

\* C25: on every board and for every tile, get_move_hints returns exactly the
\* moves at a free cell next to a tile (the origin on the empty board), in
\* the smallest rotation of each distinct orientation, with no meeple or,
\* when meeple hints are asked for, a meeple on a region of the tile, that
\* validate_tile_placement accepts, and each of them can be placed
C25_Original ==
  rejected = None =>
    \A name \in HintTiles \cup { "CORNER_RIVER" }, include \in BOOLEAN :
      HintRule(Board, Definition(name), include,
               get_move_hints(Board, Definition(name), include))

\* the distinct twelve-kind sequences of an entry over the four rotations
Orientations(tile) == { list_oriented_region_types(tile, r) : r \in 0..3 }

\* how many orientations the symmetry of the entry leaves
SymmetryCount(tile) ==
  IF list_oriented_region_types(tile, 0) = list_oriented_region_types(tile, 1)
  THEN 1
  ELSE IF list_oriented_region_types(tile, 0) = list_oriented_region_types(tile, 2)
       THEN 2
       ELSE 4

FirstHintRule(tile, result) ==
  /\ result.status = "Ok"
  /\ \A hint \in result.hints :
       /\ hint.tile = tile
       /\ hint.tile_placement.coordinate = << 0, 0 >>
       /\ hint.meeple_placement = None
  /\ \A o \in Orientations(tile) :
       Cardinality({ hint \in result.hints :
                       list_oriented_region_types(tile, hint.tile_placement.rotations) = o }) = 1
  /\ Cardinality(result.hints) = SymmetryCount(tile)

\* C26: on the empty board get_move_hints without meeple hints returns, for
\* every entry of the catalog, one placement for each distinct orientation
\* of the entry (one, two or four by its symmetry), all at the origin; the
\* first tile of a game played from the hints stands at the origin
C26_FirstHints ==
  /\ placed_tiles = << >> =>
       \A name \in TileNames :
         FirstHintRule(Definition(name), get_move_hints(Board, Definition(name), FALSE))
  /\ placed_tiles # << >> =>
       /\ placed_tiles[1].coordinate = << 0, 0 >>
       /\ SmallestOfItsKind(placed_tiles[1].tile, placed_tiles[1].rotations)

C26_Witness ==
  /\ Len(placed_tiles) = 1
  /\ placed_tiles[1].tile.name = "STRAIGHT_RIVER"
  /\ placed_tiles[1].rotations = 1

\* the regions of a board as the sets of their members, each with its closed
\* status: what is left of the region table when the IDs are forgotten
RegionClasses(board) ==
  { << RegionMembers(board.connected_regions[id]),
       is_closed(board.connected_regions[id]) >> : id \in DOMAIN board.connected_regions }

\* one more placement on each of the games, whichever way place_tile goes
\* through the merge candidates
ReplayStep(games, tile) ==
  UNION { IF g.status # "Ok" THEN { g }
          ELSE { [board |-> st.board,
                  score |-> add_assign(g.score, st.score_delta),
                  status |-> st.status] : st \in place_tile(g.board, tile) }
          : g \in games }

\* the games that place the first k of the tiles on a fresh board
RECURSIVE ReplayAll(_, _)
ReplayAll(tiles, k) ==
  IF k = 0 THEN { [board |-> EmptyBoard, score |-> Score_new, status |-> "Ok"] }
  ELSE ReplayStep(ReplayAll(tiles, k - 1), tiles[k])

SameGame(game, board, total) ==
  /\ game.status = "Ok"
  /\ RegionClasses(game.board) = RegionClasses(board)
  /\ game.score = total
  /\ calculate_board_score(game.board) = calculate_board_score(board)

\* C27: every game that places the tiles of this game in the same order on a
\* fresh board, whichever way the merge candidates are gone through, has the
\* same regions as sets of members, the same closed status of each, the same
\* running total of every player and the same end-of-game score
C27_SameSequenceSameBoard ==
  rejected = None =>
    \A game \in ReplayAll(history, Len(history)) : SameGame(game, Board, score)

\* another game of the same tiles has the region table in another state
C27_Witness ==
  /\ rejected = None
  /\ Len(history) >= 4
  /\ \E game \in ReplayAll(history, Len(history)) : game.board # Board
  /\ calculate_board_score(Board) # Score_new

\* the orderings of a sequence of tiles
Orderings(tiles) ==
  { [ i \in DOMAIN tiles |-> tiles[p[i]] ] : p \in Permutations(DOMAIN tiles) }

\* C28: every game that places the tiles of this game, none of which carries
\* a meeple, in another order on a fresh board and is accepted placement by
\* placement has the same regions as sets of members and the same closed
\* status of each
C28_OrderIndependent ==
  (rejected = None /\ history # << >>) =>
    \A tiles \in Orderings(history) :
      \A game \in ReplayAll(tiles, Len(tiles)) :
        game.status = "Ok" => RegionClasses(game.board) = RegionClasses(Board)

\* a closed region of two members or more on a board of four tiles that
\* another order of the same tiles builds as well
C28_Witness ==
  /\ rejected = None
  /\ Len(history) = 4
  /\ \E class \in RegionClasses(Board) : class[2] /\ Cardinality(class[1]) >= 2
  /\ \E tiles \in Orderings(history) \ { history } :
       \E game \in ReplayAll(tiles, Len(tiles)) : game.status = "Ok"

\* the entries of the tile table that lose a meeple of player p in the step
MeeplesRemoved(p) ==
  { k \in DOMAIN placed_tiles :
      /\ placed_tiles[k].meeple # None
      /\ placed_tiles'[k].meeple = None
      /\ Unwrap(placed_tiles[k].meeple)[2].player_id = p }

\* the places of the meeples of player p in the list the step returns
MeeplesReturned(p) ==
  { i \in DOMAIN outcome'.liberated_meeple : outcome'.liberated_meeple[i].player_id = p }

\* C29: a placement that succeeds appends one entry to the tile table, at
\* the coordinate proposed; every earlier entry keeps its catalog tile, its
\* coordinate and its rotations, and keeps its meeple or loses it, and no
\* more meeples of a player leave the table than the placement returns
C29_PlacementFrame ==
  [][ PlacedNow =>
        /\ Len(placed_tiles') = Len(placed_tiles) + 1
        /\ placed_tiles'[Len(placed_tiles')].coordinate = ProposalNow.coordinate
        /\ \A k \in DOMAIN placed_tiles :
             /\ placed_tiles'[k].tile = placed_tiles[k].tile
             /\ placed_tiles'[k].coordinate = placed_tiles[k].coordinate
             /\ placed_tiles'[k].rotations = placed_tiles[k].rotations
             /\ placed_tiles'[k].meeple \in { placed_tiles[k].meeple, None }
        /\ \A p \in Range(Players) :
             Cardinality(MeeplesRemoved(p)) <= Cardinality(MeeplesReturned(p)) ]_vars

\* the last placement took a meeple off an earlier tile and returned it
C29_Witness ==
  /\ Len(placed_tiles) >= 2
  /\ outcome.liberated_meeple # << >>
  /\ \E k \in 1..(Len(placed_tiles) - 1) :
       /\ history[k].meeple # None
       /\ placed_tiles[k].meeple = None
       /\ Unwrap(history[k].meeple)[2] \in Range(outcome.liberated_meeple)

\* C30: a tile that Deck::next yields and that is not the river terminator
\* was asked about in that call, and tile_can_be_placed answered true every
\* time it was asked about it in that call
C30_YieldedWasPlaceable ==
  (drawn.item # None /\ Unwrap(drawn.item) # RIVER_TERMINATOR) =>
    /\ \E i \in DOMAIN drawn.asked : drawn.asked[i][1] = Unwrap(drawn.item)
    /\ \A i \in DOMAIN drawn.asked :
         drawn.asked[i][1] = Unwrap(drawn.item) => drawn.asked[i][2]

\* a draw from the base portion that discarded a tile before it yielded one,
\* in a deck whose river portion ended on a tile that could not be placed
C30_Witness ==
  /\ drawn.item # None
  /\ expansion(Unwrap(drawn.item)) = None
  /\ \E i \in DOMAIN drawn.asked :
       /\ expansion(drawn.asked[i][1]) = None
       /\ ~drawn.asked[i][2]
  /\ \E i \in DOMAIN drawn.asked :
       /\ expansion(drawn.asked[i][1]) = Some("River")
       /\ ~drawn.asked[i][2]

\* the copies of a catalog entry in a sequence of tiles
Copies(tiles, tile) == Cardinality({ i \in DOMAIN tiles : tiles[i] = tile })

\* the base tiles a deck starts with, before any shuffle
InitialBaseTiles ==
  SelectSeq(flat_map_copies(ALL_TILE_DEFINITIONS), LAMBDA t : expansion(t) = None)

\* C31: after every call of next, the base tiles yielded so far and the
\* tiles left in the base stack are together the base tiles the deck
\* started with, copy for copy
C31_Original ==
  deck # None =>
    \A tile \in Range(ALL_TILE_DEFINITIONS) :
      expansion(tile) = None =>
        Copies(drawn.yielded, tile) + Copies(Unwrap(deck).base_tiles.tiles, tile)
          = Copies(InitialBaseTiles, tile)

\* C32: no tile of the river expansion is yielded after a base tile, and a
\* deck built without the river yields base tiles only
C32_RiverBeforeBase ==
  /\ \A i, j \in DOMAIN drawn.yielded :
       (i < j /\ expansion(drawn.yielded[i]) = None)
         => expansion(drawn.yielded[j]) = None
  /\ (deck # None /\ Unwrap(deck).river_tiles = None) =>
       \A i \in DOMAIN drawn.yielded : expansion(drawn.yielded[i]) = None

\* the river ended on a tile that could not be placed, with river tiles left
\* in its stack, and base tiles have been yielded since
C32_Witness ==
  /\ deck # None
  /\ Unwrap(deck).river_tiles # None
  /\ Unwrap(Unwrap(deck).river_tiles).tiles # << >>
  /\ Len(drawn.yielded) >= 4
  /\ expansion(drawn.yielded[2]) = Some("River")
  /\ expansion(drawn.yielded[Len(drawn.yielded) - 1]) = None
  /\ expansion(drawn.yielded[Len(drawn.yielded)]) = None

\* the river tiles a river sequence starts with, before the shuffle
InitialRiverTiles ==
  SelectSeq(flat_map_copies(ALL_TILE_DEFINITIONS),
            LAMBDA t : expansion(t) = Some("River") /\ t # RIVER_TERMINATOR)

\* every tile the river sequence has popped could be placed and was yielded
EveryDrawnPlaceable(river) ==
  \A tile \in Range(InitialRiverTiles) :
    Copies(drawn.yielded, tile) + Copies(river.tiles, tile)
      = Copies(InitialRiverTiles, tile)

\* the copies of the river tiles of the whole catalog, the terminator aside
RECURSIVE RiverCopies(_)
RiverCopies(definitions) ==
  IF definitions = << >> THEN 0
  ELSE (IF expansion(Head(definitions)) = Some("River")
           /\ Head(definitions) # RIVER_TERMINATOR
        THEN Head(definitions).count ELSE 0) + RiverCopies(Tail(definitions))

RiverRule(river) ==
  /\ drawn.yielded # << >> => drawn.yielded[1] = RIVER_TERMINATOR
  /\ river.current_index > 0 => drawn.yielded # << >>
  /\ EveryDrawnPlaceable(river) =>
       /\ Len(drawn.yielded) <= Len(InitialRiverTiles) + 2
       /\ \A i \in DOMAIN drawn.yielded :
            drawn.yielded[i] = RIVER_TERMINATOR
              <=> i \in { 1, Len(InitialRiverTiles) + 2 }
       /\ river.river_exhausted =>
            /\ Len(drawn.yielded) = Len(InitialRiverTiles) + 2
            /\ \A can \in SUBSET Range(InitialRiverTiles) :
                 RiverTileSequence_next(river, can).item = None

\* C33: the river sequence yields the river terminator first; while every
\* tile it draws can be placed it yields each copy of the other river tiles
\* once, then the river terminator as its last tile, and None from then on;
\* with the whole catalog that is 12 tiles
C33_RiverSequence ==
  /\ deck # None => RiverRule(Unwrap(deck))
  /\ RiverCopies(ALL_TILE_DEFINITIONS) + 2 = 12

\* the river has yielded all of its tiles between the two terminators and
\* has been called once more
C33_Witness ==
  /\ deck # None
  /\ Unwrap(deck).river_exhausted
  /\ Len(drawn.yielded) = Len(InitialRiverTiles) + 2
  /\ drawn.yielded[Len(drawn.yielded)] = RIVER_TERMINATOR
  /\ drawn.item = None

\* C34: on every board that placements have left, validation answers every
\* proposal with Ok or one of the eight errors, and never aborts
C34_Original ==
  rejected = None =>
    \A tile \in Proposals(RiverTiles, RiverCoordinates, 0..3, { CurrentPlayer }) :
      validate_tile_placement(Board, tile) \in { "Ok" } \cup ValidationErrors

\* the coordinate the sub-edge faces holds no tile
FacesFree(e) == opposing_tile_edge(e).coordinate \notin occupied(Board)

\* C35: a City, Road or Field region of the table is closed exactly when no
\* sub-edge of any of its members faces a free coordinate, and an edge of
\* its edge map is unmatched exactly when the coordinate it faces is free
C35_ClosedIffSurrounded ==
  \A id \in DOMAIN connected_regions :
    connected_regions[id].region_type \in { "City", "Road", "Field" } =>
      /\ is_closed(connected_regions[id])
           <=> \A m \in RegionMembers(connected_regions[id]) :
                 \A e \in MemberEdges(m) : ~FacesFree(e)
      /\ \A e \in DOMAIN connected_regions[id].connected_edges :
           connected_regions[id].connected_edges[e] = None <=> FacesFree(e)

\* a closed City or Road of two members or more and an open region of two
\* members or more on the same board
C35_Witness ==
  /\ \E id \in DOMAIN connected_regions :
       /\ connected_regions[id].region_type \in { "City", "Road" }
       /\ is_closed(connected_regions[id])
       /\ Cardinality(RegionMembers(connected_regions[id])) >= 2
  /\ \E id \in DOMAIN connected_regions :
       /\ ~is_closed(connected_regions[id])
       /\ Cardinality(RegionMembers(connected_regions[id])) >= 2

\* the placed tiles whose meeple stands on a member of the region
MeepleTilesOn(region, tiles) ==
  { k \in DOMAIN tiles :
      /\ IsSome(tiles[k].meeple)
      /\ << tiles[k].coordinate, Unwrap(tiles[k].meeple)[1] >> \in RegionMembers(region) }

\* C36: right after a placement that succeeded with a meeple on region i at
\* coordinate c, the connected region that holds the member (c, i) carries no
\* meeple but the one of the tile just placed
C36_Original ==
  [][ (PlacedNow /\ IsSome(ProposalNow.meeple)) =>
        \A id \in DOMAIN connected_regions' :
          << ProposalNow.coordinate, Unwrap(ProposalNow.meeple)[1] >>
              \in RegionMembers(connected_regions'[id]) =>
            \A k \in MeepleTilesOn(connected_regions'[id], placed_tiles') :
              placed_tiles'[k].coordinate = ProposalNow.coordinate ]_vars

\* C37: after a placement that succeeded no placed tile has both a meeple on
\* its Cloister region and a tile on each of the eight coordinates around it
C37_Original ==
  rejected = None =>
    \A k \in DOMAIN placed_tiles :
      ~ /\ has_occupied_cloister(placed_tiles[k])
        /\ Len(list_surrounding_tiles(Board, placed_tiles[k].coordinate)) = 8

\* the City, Road and Field regions of the table that are closed
ClosedRegions(regions) ==
  { id \in DOMAIN regions :
      /\ regions[id].region_type \in { "City", "Road", "Field" }
      /\ is_closed(regions[id]) }

\* C38: a City, Road or Field region that is closed is final: every step
\* leaves it in the region table under its ID with the same members and the
\* same edge map, hence closed and merged into nothing, so the placement
\* that closed it is the only one whose commit handles it
C38_ClosedIsFinal ==
  [][ \A id \in ClosedRegions(connected_regions) :
        /\ id \in ClosedRegions(connected_regions')
        /\ connected_regions'[id] = connected_regions[id]
        /\ \A other \in DOMAIN connected_regions' \ { id } :
             RegionMembers(connected_regions'[other])
               \cap RegionMembers(connected_regions[id]) = {} ]_vars

\* a region closed by an earlier placement with a tile placed after it that
\* is none of its members
C38_Witness ==
  /\ rejected = None
  /\ placed_tiles # << >>
  /\ \E id \in ClosedRegions(connected_regions) :
       /\ Cardinality(RegionMembers(connected_regions[id])) >= 2
       /\ \A m \in RegionMembers(connected_regions[id]) :
            m[1] # placed_tiles[Len(placed_tiles)].coordinate

\* the tiles of SpecJoin on the cells of its block, in every orientation and
\* with every meeple the player to move can put on them
JoinProposals ==
  Proposals({ JoinMoves[k][1] : k \in DOMAIN JoinMoves },
            { JoinMoves[k][2] : k \in DOMAIN JoinMoves }, 0..3, { CurrentPlayer })

\* C39: on a board reached by successful placements every region ID that
\* the edge index returns for the edge facing a sub-edge of a proposed tile
\* is a key of the region table when it is looked up: the meeple rule of
\* validate finds every joined region, and the commit of place finds every
\* candidate it removes, also for the second own region of a tile whose
\* first own region has absorbed the same neighbour
C39_LookupsSucceed ==
  rejected = None =>
    \A tile \in JoinProposals :
      tile.coordinate \notin occupied(Board) =>
        /\ \A i \in DOMAIN own_connected_regions(tile) :
             get_candidate_regions_to_merge(Board, own_connected_regions(tile)[i])
               \subseteq DOMAIN connected_regions
        /\ IsSome(tile.meeple) =>
             validate_meeple(Board, tile, own_connected_regions(tile)) # "panic"
        /\ \A st \in place_tile(Board, tile) : st.status # "panic: should exist"

\* the road corner is placed: its two fields are members of one region with
\* the field around the cloister, which both of them face
C39_Witness ==
  /\ rejected = None
  /\ Len(placed_tiles) = Len(JoinMoves)
  /\ \E id \in DOMAIN connected_regions :
       { << << 0, 1 >>, 0 >>, << << 0, 1 >>, 1 >>, << << 1, 1 >>, 1 >> }
         \subseteq RegionMembers(connected_regions[id])

\* the oriented 12-tuple of the tile shows, at the position of each catalog
\* edge turned by the tile's rotations, the kind of the region of that edge
OrientedAsTracked(t) ==
  /\ Len(list_oriented_region_types(t.tile, t.rotations)) = 12
  /\ \A i \in DOMAIN Regions(t) :
       \A k \in DOMAIN Regions(t)[i].edges :
         list_oriented_region_types(t.tile, t.rotations)
             [position(rotate(Regions(t)[i].edges[k], t.rotations)) + 1]
           = Regions(t)[i].region_type

\* C40: for every tile of the catalog and every rotation 0..3 the kind at
\* perimeter position d of list_oriented_region_types (clockwise from NNW)
\* is the kind of the region whose catalog edge, rotated as the edges of the
\* region tracker are, is d: for every tile on the board, which a first
\* move takes from the whole catalog in each of the four orientations
C40_OrientedKinds ==
  \A k \in DOMAIN placed_tiles : OrientedAsTracked(placed_tiles[k])

\* a tile whose four orientations all differ is on the board, turned once
C40_Witness ==
  /\ placed_tiles # << >>
  /\ placed_tiles[1].rotations = 1
  /\ \A r \in 1..3 :
       list_oriented_region_types(placed_tiles[1].tile, r)
         # list_oriented_region_types(placed_tiles[1].tile, 0)
  /\ Cardinality({ list_oriented_region_types(placed_tiles[1].tile, r) : r \in 0..3 }) = 4

====
